---- MODULE Spec2Model ----
(***************************************************************************)
(* Model of the chart analyzer of js/analysis.js: candle extraction from a *)
(* pixel buffer, candlestick pattern detection, the Donchian and RSI       *)
(* indicators, and the fusion of pattern and indicator signals into one    *)
(* recommendation.  The file holds two revisions of the pipeline: v7       *)
(* (lines 1-1756) and the v6 framework with the learning store (lines      *)
(* 1757-4303).  Both are modelled, each from its own lines.                *)
(*                                                                         *)
(* Numbers.  JavaScript numbers are doubles; the model computes with exact *)
(* rationals <<n, d>> (d > 0, lowest terms).  Pixel rows and columns are   *)
(* integers.  Strengths are given in hundredths, scores in tenths.         *)
(***************************************************************************)
EXTENDS Integers, Sequences, FiniteSets, TLC

VARIABLES
    revision,         \* which revision of the pipeline runs: "v7" or "learning"
    patterns,         \* candleAnalysis.patterns handed to the fusion
    tech,             \* technicalAnalysis handed to the fusion
    patternAccuracy,  \* analysisDB.patternAccuracy: name -> [occurrences, correct]
    recs,             \* the Recommendations returned so far, oldest first
    image,            \* the pixel buffer handed to the extractor
    extracted,        \* result of the extraction: [status, candles]
    candles,          \* candle sequence handed to the pattern detector
    detected,         \* result of detectAllCandlestickPatterns
    closes,           \* candle sequence (closes, highs, lows) handed to an indicator
    indicator,        \* result of the indicator
    run               \* the upload handler and performAdvancedAnalysis: stage, page, timers

vars == <<revision, patterns, tech, patternAccuracy, recs, image, extracted,
          candles, detected, closes, indicator, run>>

fusionVars == <<revision, patterns, tech, patternAccuracy, recs, run>>
extractVars == <<image, extracted>>
patternVars == <<candles, detected>>
indicatorVars == <<closes, indicator>>

(***************************************************************************)
(* Exact rational arithmetic                                               *)
(***************************************************************************)
Abs(x) == IF x < 0 THEN -x ELSE x

Min(a, b) == IF a < b THEN a ELSE b

Max(a, b) == IF a > b THEN a ELSE b

RECURSIVE GCD(_, _)
GCD(a, b) == IF b = 0 THEN a ELSE GCD(b, a % b)

Q(n, d) == LET g == GCD(Abs(n), d) IN <<n \div g, d \div g>>

QAdd(a, b) == Q(a[1] * b[2] + b[1] * a[2], a[2] * b[2])

QSub(a, b) == Q(a[1] * b[2] - b[1] * a[2], a[2] * b[2])

QMul(a, b) == Q(a[1] * b[1], a[2] * b[2])

QDiv(a, b) == Q(a[1] * b[2], a[2] * b[1])

QAbs(a) == <<Abs(a[1]), a[2]>>

QLess(a, b) == a[1] * b[2] < b[1] * a[2]

QZero == <<0, 1>>

\* Math.round: the nearest integer, halves rounded up (floor(x + 1/2)); x >= 0 here
MathRound(a) == (2 * a[1] + a[2]) \div (2 * a[2])

RECURSIVE QSum(_)
QSum(s) == IF s = <<>> THEN QZero ELSE QAdd(Head(s), QSum(Tail(s)))

(***************************************************************************)
(* Configuration: config (v7, analysis.js:4-71) and config (v6,            *)
(* analysis.js:1760-1805).  Scores are in tenths, targets and risks in     *)
(* ten-thousandths.                                                        *)
(***************************************************************************)
ScoresV7 ==
    [doji |-> 10, spinningTop |-> 15, hammer |-> 25, invertedHammer |-> 20,
     shootingStar |-> 20, hangingMan |-> 25, bullishEngulfing |-> 40,
     bearishEngulfing |-> 40, bullishHarami |-> 30, bearishHarami |-> 30,
     piercingLine |-> 35, darkCloudCover |-> 35, morningStar |-> 50,
     eveningStar |-> 50, threeWhiteSoldiers |-> 45, threeBlackCrows |-> 45,
     tweezerTop |-> 25, tweezerBottom |-> 25, risingThree |-> 35,
     fallingThree |-> 35, gapUp |-> 30, gapDown |-> 30, strongSupport |-> 50,
     strongResistance |-> 50, upperBreakout |-> 45, lowerBreakout |-> 45,
     rsiOversold |-> 30, rsiOverbought |-> 30, macdBullish |-> 35,
     macdBearish |-> 35]

ScoresV6 ==
    [doji |-> 15, hammer |-> 30, shootingStar |-> 30, engulfing |-> 40,
     harami |-> 35, piercingLine |-> 35, darkCloudCover |-> 35,
     morningStar |-> 50, eveningStar |-> 50, threeWhiteSoldiers |-> 45,
     threeBlackCrows |-> 45, strongSupport |-> 50, strongResistance |-> 50,
     upperBreakout |-> 40, lowerBreakout |-> 40]

ProfitTargetsV7 == [conservative |-> 150, moderate |-> 300, aggressive |-> 450]

RiskLevelsV7 == [conservative |-> 75, moderate |-> 150, aggressive |-> 225]

ProfitTargetsV6 == [conservative |-> 200, moderate |-> 350, aggressive |-> 500]

\* the literals 0.01, 0.015, 0.02 of the learning revision
RiskLevelsLearning == [conservative |-> 100, moderate |-> 150, aggressive |-> 200]

confidenceThreshold == 65

\* `|| 2.0`: the base score of a pattern whose name has no entry in config.scores
FallbackScore == 20

\* pattern.name.replace(/\s/g, ''): the name with its blanks removed, letter case
\* kept, tabulated over the names the two detectors emit
StripSpaces ==
    ("Doji" :> "Doji") @@ ("Hammer" :> "Hammer")
    @@ ("Inverted Hammer" :> "InvertedHammer")
    @@ ("Shooting Star" :> "ShootingStar")
    @@ ("Hanging Man" :> "HangingMan")
    @@ ("Bullish Marubozu" :> "BullishMarubozu")
    @@ ("Bearish Marubozu" :> "BearishMarubozu")
    @@ ("Spinning Top" :> "SpinningTop")
    @@ ("Bullish Engulfing" :> "BullishEngulfing")
    @@ ("Bearish Engulfing" :> "BearishEngulfing")
    @@ ("Bullish Harami" :> "BullishHarami")
    @@ ("Bearish Harami" :> "BearishHarami")
    @@ ("Piercing Line" :> "PiercingLine")
    @@ ("Dark Cloud Cover" :> "DarkCloudCover")
    @@ ("Tweezer Top" :> "TweezerTop")
    @@ ("Tweezer Bottom" :> "TweezerBottom")
    @@ ("Morning Star" :> "MorningStar")
    @@ ("Evening Star" :> "EveningStar")
    @@ ("Three White Soldiers" :> "ThreeWhiteSoldiers")
    @@ ("Three Black Crows" :> "ThreeBlackCrows")
    @@ ("Three Inside Up" :> "ThreeInsideUp")
    @@ ("Three Inside Down" :> "ThreeInsideDown")
    @@ ("Rising Three Methods" :> "RisingThreeMethods")
    @@ ("Falling Three Methods" :> "FallingThreeMethods")
    @@ ("Gap Up" :> "GapUp") @@ ("Gap Down" :> "GapDown")

\* config.scores[pattern.name.replace(/\s/g, '')] || 2.0
BaseScore(scores, name) ==
    LET key == StripSpaces[name]
    IN  IF key \in DOMAIN scores /\ scores[key] # 0
        THEN Q(scores[key], 10)
        ELSE Q(FallbackScore, 10)

Pattern(n, sig, st) == [name |-> n, signal |-> sig, strength |-> st]

Signal(sig, st) == [signal |-> sig, strength |-> st]

Hold == Signal("HOLD", 0)

(***************************************************************************)
(* Fusion: generateProfessionalRecommendation                              *)
(***************************************************************************)
Factor(ty, lbl, imp) == [type |-> ty, label |-> lbl, impact |-> imp]

FactorType(sig) == IF sig = "BUY" THEN "bullish" ELSE "bearish"

\* the strength of an indicator result as a rational: results hold it in
\* hundredths, except that of analyzeSupportResistance, which holds the rational
StrengthOf(res) ==
    IF "levels" \in DOMAIN res THEN res.strength ELSE Q(res.strength, 100)

\* the summary entry of one indicator result: none unless it is BUY or SELL
IndicatorFactor(lbl, res, base) ==
    IF res.signal \in {"BUY", "SELL"}
    THEN <<Factor(FactorType(res.signal), lbl, QMul(Q(base, 10), StrengthOf(res)))>>
    ELSE <<>>

\* patterns.forEach of the v7 revision: score = baseScore * pattern.strength
PatternFactorsV7(pats) ==
    LET scored == [i \in 1..Len(pats) |->
                     Factor(FactorType(pats[i].signal), pats[i].name,
                            QMul(BaseScore(ScoresV7, pats[i].name),
                                 Q(pats[i].strength, 100)))]
        keep == {i \in 1..Len(pats) : pats[i].signal \in {"BUY", "SELL"}}
        F[i \in 0..Len(pats)] ==
            IF i = 0 THEN <<>>
            ELSE IF i \in keep THEN Append(F[i - 1], scored[i]) ELSE F[i - 1]
    IN  F[Len(pats)]

\* buyScore / sellScore: the sum of the impacts of one side
SideScore(factors, ty) ==
    LET S[i \in 0..Len(factors)] ==
            IF i = 0 THEN QZero
            ELSE IF factors[i].type = ty THEN QAdd(S[i - 1], factors[i].impact)
                 ELSE S[i - 1]
    IN  S[Len(factors)]

\* summary.sort((a, b) => b.impact - a.impact): stable, by descending impact
RECURSIVE SortByImpact(_)
SortByImpact(s) ==
    IF s = <<>> THEN <<>>
    ELSE LET n == Len(s)
             front == SortByImpact(SubSeq(s, 1, n - 1))
             x == s[n]
             k == Cardinality({i \in 1..(n - 1) : ~QLess(front[i].impact, x.impact)})
         IN  SubSeq(front, 1, k) \o <<x>> \o SubSeq(front, k + 1, n - 1)

Take(s, n) == SubSeq(s, 1, Min(n, Len(s)))

NeutralFactor == Factor("neutral", "Confidence below 65% threshold", QZero)

\* Tier with the moderate band starting at 80
Tier_Moderate80(confidence) ==
    IF confidence >= 85 THEN "aggressive"
    ELSE IF confidence >= 80 THEN "moderate"
    ELSE "conservative"

\* the tier of a confidence (analysis.js:1398-1407, the same for BUY and SELL)
Tier(confidence) ==
    IF confidence >= 85 THEN "aggressive"
    ELSE IF confidence >= 75 THEN "moderate"
    ELSE "conservative"

\* UnclearV7 with the minimum separation 1.0 of the learning revision
UnclearV7_Separation1(buy, sell) ==
    QAdd(buy, sell) = QZero \/ QLess(QAbs(QSub(buy, sell)), Q(1, 1))

\* analysis.js:1383: totalScore === 0 || scoreDifference < 1.5
UnclearV7(buy, sell) ==
    QAdd(buy, sell) = QZero \/ QLess(QAbs(QSub(buy, sell)), Q(15, 10))

\* ConfidenceV7 with Math.floor in place of Math.round
ConfidenceV7_Floor(buy, sell) ==
    IF UnclearV7(buy, sell) THEN 40
    ELSE LET raw == QAdd(Q(50, 1),
                 QMul(QDiv(QAbs(QSub(buy, sell)), QAdd(buy, sell)), Q(50, 1)))
         IN  Min(95, raw[1] \div raw[2])

\* ConfidenceV7 with the neutral 50 as the confidence of the unclear case
ConfidenceV7_Default50(buy, sell) ==
    IF UnclearV7(buy, sell) THEN 50
    ELSE Min(95, MathRound(QAdd(Q(50, 1),
                 QMul(QDiv(QAbs(QSub(buy, sell)), QAdd(buy, sell)), Q(50, 1)))))

\* analysis.js:1385 and 1390-1391: 40 without a clear signal, otherwise
\* Math.min(95, Math.round(50 + (scoreDifference / totalScore) * 50))
ConfidenceV7(buy, sell) ==
    IF UnclearV7(buy, sell) THEN 40
    ELSE Min(95, MathRound(QAdd(Q(50, 1),
                 QMul(QDiv(QAbs(QSub(buy, sell)), QAdd(buy, sell)), Q(50, 1)))))

\* BelowThreshold against 60 in place of 65
BelowThreshold_60(confidence) == confidence < 60

\* analysis.js:1427 and 3412: if (confidence < 65)
BelowThreshold(confidence) == confidence < confidenceThreshold

\* analysis.js:1377-1436: action, confidence and tier from the two scores,
\* with the 65 threshold applied
DecideV7(buy, sell) ==
    LET unclear == UnclearV7(buy, sell)
        confidence == ConfidenceV7(buy, sell)
        action0 == IF unclear THEN "WAIT"
                   ELSE IF QLess(sell, buy) THEN "BUY" ELSE "SELL"
        below == BelowThreshold(confidence)
    IN  [action |-> IF below THEN "WAIT" ELSE action0,
         confidence |-> confidence,
         profitTarget |-> IF unclear \/ below THEN QZero
                          ELSE Q(ProfitTargetsV7[Tier(confidence)], 10000),
         riskLevel |-> IF unclear \/ below THEN QZero
                       ELSE Q(RiskLevelsV7[Tier(confidence)], 10000),
         below |-> below]

\* analysis.js:1442-1464: the adjustments from the quantitative indicators
QuantAdjustV7(target, quant) ==
    IF ~(quant.present /\ quant.hasIndicators) THEN target
    ELSE LET v == quant.volatility
             t == Abs(quant.trendStrength)
             a == IF v > 40 THEN QMul(target, Q(60, 100))
                  ELSE IF v > 30 THEN QMul(target, Q(75, 100))
                  ELSE IF v > 20 THEN QMul(target, Q(90, 100))
                  ELSE target
             b == IF t > 6 THEN QMul(a, Q(125, 100))
                  ELSE IF t > 4 THEN QMul(a, Q(115, 100))
                  ELSE a
         IN  IF quant.rsi > 85 \/ quant.rsi < 15 THEN QMul(b, Q(85, 100)) ELSE b

\* MaAdjustV7 with a penalty of 0.05 subtracted in place of the factor 0.85
MaAdjustV7_Subtracting(target, action, ma) ==
    IF ~ma.hasIndicators THEN target
    ELSE IF ma.sma9 = 0 \/ ma.sma20 = 0 \/ ma.sma50 = 0 THEN target
    ELSE IF action = "BUY" /\ ma.sma9 > ma.sma20 /\ ma.sma20 > ma.sma50
         THEN QMul(target, Q(110, 100))
    ELSE IF action = "SELL" /\ ma.sma9 < ma.sma20 /\ ma.sma20 < ma.sma50
         THEN QMul(target, Q(110, 100))
    ELSE IF \/ action = "BUY" /\ (ma.sma9 < ma.sma20 \/ ma.sma20 < ma.sma50)
            \/ action = "SELL" /\ (ma.sma9 > ma.sma20 \/ ma.sma20 > ma.sma50)
         THEN QSub(target, Q(5, 1000))
    ELSE target

\* analysis.js:1466-1483: the adjustment from the moving-average alignment
MaAdjustV7(target, action, ma) ==
    IF ~ma.hasIndicators THEN target
    ELSE IF ma.sma9 = 0 \/ ma.sma20 = 0 \/ ma.sma50 = 0 THEN target
    ELSE IF action = "BUY" /\ ma.sma9 > ma.sma20 /\ ma.sma20 > ma.sma50
         THEN QMul(target, Q(110, 100))
    ELSE IF action = "SELL" /\ ma.sma9 < ma.sma20 /\ ma.sma20 < ma.sma50
         THEN QMul(target, Q(110, 100))
    ELSE IF \/ action = "BUY" /\ (ma.sma9 < ma.sma20 \/ ma.sma20 < ma.sma50)
            \/ action = "SELL" /\ (ma.sma9 > ma.sma20 \/ ma.sma20 > ma.sma50)
         THEN QMul(target, Q(85, 100))
    ELSE target

\* generateProfessionalRecommendation of the v7 revision (analysis.js:1250-1500).
\* profitTarget and riskLevel are returned in tenths of a percent.
RecommendV7(pats, t) ==
    LET factors == PatternFactorsV7(pats)
                   \o IndicatorFactor("Support/Resistance", t.supportResistance,
                        IF t.supportResistance.signal = "BUY"
                        THEN ScoresV7.strongSupport ELSE ScoresV7.strongResistance)
                   \o IndicatorFactor("Donchian", t.donchianChannels,
                        IF t.donchianChannels.signal = "BUY"
                        THEN ScoresV7.upperBreakout ELSE ScoresV7.lowerBreakout)
                   \o IndicatorFactor("Moving Average", t.movingAverages, 35)
                   \o IndicatorFactor("MACD", t.macd,
                        IF t.macd.signal = "BUY"
                        THEN ScoresV7.macdBullish ELSE ScoresV7.macdBearish)
                   \o (IF t.quantitative.present
                       THEN IndicatorFactor("Quantitative", t.quantitative, 30)
                       ELSE <<>>)
        buy == SideScore(factors, "bullish")
        sell == SideScore(factors, "bearish")
        d == DecideV7(buy, sell)
        summary == IF d.below THEN Append(factors, NeutralFactor) ELSE factors
        adjusted == MaAdjustV7(QuantAdjustV7(d.profitTarget, t.quantitative),
                               d.action, t.movingAverages)
    IN  [action |-> d.action,
         confidence |-> d.confidence,
         profitTarget |-> IF d.action # "WAIT" /\ QLess(QZero, d.profitTarget)
                          THEN MathRound(QMul(adjusted, Q(1000, 1))) ELSE 0,
         riskLevel |-> MathRound(QMul(d.riskLevel, Q(1000, 1))),
         summary |-> Take(SortByImpact(summary), 10),
         buy |-> buy,
         sell |-> sell]

(***************************************************************************)
(* The learning store: class AnalysisDatabase                              *)
(***************************************************************************)
\* getPatternAccuracy(name).accuracy || 0.5: correct / occurrences of the stored
\* entry, and 0.5 for a name without an entry or with accuracy 0
AccuracyWeight(db, name) ==
    IF name \in DOMAIN db /\ db[name].correct > 0
    THEN Q(db[name].correct, db[name].occurrences)
    ELSE Q(1, 2)

\* updatePatternAccuracy: every pattern of the run counts one occurrence, and one
\* correct outcome when the run's confidence is above 70
UpdatePatternAccuracy(db, pats, confidence) ==
    LET names == {pats[i].name : i \in 1..Len(pats)}
        old(n) == IF n \in DOMAIN db THEN db[n]
                  ELSE [occurrences |-> 0, correct |-> 0]
    IN  [n \in DOMAIN db \cup names |->
            IF n \in names
            THEN [occurrences |-> old(n).occurrences + 1,
                  correct |-> old(n).correct + (IF confidence > 70 THEN 1 ELSE 0)]
            ELSE db[n]]

\* patterns.forEach of the learning revision:
\* score = baseScore * accuracyWeight, impact = score * pattern.strength
PatternFactorsLearning(pats, db) ==
    LET scored == [i \in 1..Len(pats) |->
                     Factor(FactorType(pats[i].signal), pats[i].name,
                            QMul(QMul(BaseScore(ScoresV6, pats[i].name),
                                      AccuracyWeight(db, pats[i].name)),
                                 Q(pats[i].strength, 100)))]
        keep == {i \in 1..Len(pats) : pats[i].signal \in {"BUY", "SELL"}}
        F[i \in 0..Len(pats)] ==
            IF i = 0 THEN <<>>
            ELSE IF i \in keep THEN Append(F[i - 1], scored[i]) ELSE F[i - 1]
    IN  F[Len(pats)]

\* analysis.js:3367: totalScore === 0 || scoreDifference < 1.0
UnclearLearning(buy, sell) ==
    QAdd(buy, sell) = QZero \/ QLess(QAbs(QSub(buy, sell)), Q(1, 1))

\* analysis.js:3369 and 3375-3376: 45 without a clear signal, otherwise
\* Math.min(98, Math.round(50 + (scoreDifference / (totalScore + 1)) * 50))
ConfidenceLearning(buy, sell) ==
    IF UnclearLearning(buy, sell) THEN 45
    ELSE Min(98, MathRound(QAdd(Q(50, 1),
                 QMul(QDiv(QAbs(QSub(buy, sell)), QAdd(QAdd(buy, sell), Q(1, 1))),
                      Q(50, 1)))))

\* analysis.js:3361-3420: action, confidence and tier from the two scores; the
\* threshold resets the action and the profit target, not the risk level
DecideLearning(buy, sell) ==
    LET unclear == UnclearLearning(buy, sell)
        confidence == ConfidenceLearning(buy, sell)
        action0 == IF unclear THEN "WAIT"
                   ELSE IF QLess(sell, buy) THEN "BUY" ELSE "SELL"
        below == BelowThreshold(confidence)
    IN  [action |-> IF below THEN "WAIT" ELSE action0,
         confidence |-> confidence,
         profitTarget |-> IF unclear \/ below THEN QZero
                          ELSE Q(ProfitTargetsV6[Tier(confidence)], 10000),
         riskLevel |-> IF unclear THEN QZero
                       ELSE Q(RiskLevelsLearning[Tier(confidence)], 10000),
         below |-> below]

\* analysis.js:3426-3444
QuantAdjustLearning(target, quant) ==
    IF ~(quant.present /\ quant.hasIndicators) THEN target
    ELSE LET v == quant.volatility
             t == Abs(quant.trendStrength)
             a == IF v > 30 THEN QMul(target, Q(70, 100))
                  ELSE IF v > 20 THEN QMul(target, Q(85, 100))
                  ELSE target
             b == IF t > 5 THEN QMul(a, Q(120, 100)) ELSE a
         IN  IF quant.rsi > 80 \/ quant.rsi < 20 THEN QMul(b, Q(90, 100)) ELSE b

\* generateProfessionalRecommendation of the learning revision
\* (analysis.js:3228-3463); db is analysisDB.patternAccuracy as the run finds it
RecommendLearning(pats, t, db) ==
    LET factors == PatternFactorsLearning(pats, db)
                   \o IndicatorFactor("Support/Resistance", t.supportResistance,
                        IF t.supportResistance.signal = "BUY"
                        THEN ScoresV6.strongSupport ELSE ScoresV6.strongResistance)
                   \o IndicatorFactor("Donchian", t.donchianChannels,
                        IF t.donchianChannels.signal = "BUY"
                        THEN ScoresV6.upperBreakout ELSE ScoresV6.lowerBreakout)
                   \o (IF t.quantitative.present
                       THEN IndicatorFactor("Quantitative", t.quantitative, 30)
                       ELSE <<>>)
                   \o IndicatorFactor("Liquidity", t.liquidity, 25)
                   \o IndicatorFactor("Trend", t.trend, 35)
        buy == SideScore(factors, "bullish")
        sell == SideScore(factors, "bearish")
        d == DecideLearning(buy, sell)
        summary == IF d.below THEN Append(factors, NeutralFactor) ELSE factors
        adjusted == QuantAdjustLearning(d.profitTarget, t.quantitative)
    IN  [action |-> d.action,
         confidence |-> d.confidence,
         profitTarget |-> IF d.action # "WAIT" /\ QLess(QZero, d.profitTarget)
                          THEN MathRound(QMul(adjusted, Q(1000, 1))) ELSE 0,
         riskLevel |-> MathRound(QMul(d.riskLevel, Q(1000, 1))),
         summary |-> Take(SortByImpact(summary), 8),
         buy |-> buy,
         sell |-> sell]

(***************************************************************************)
(* Inputs of the fusion                                                    *)
(***************************************************************************)
\* bounds of the fusion runs
MaxPatterns == 2

MaxRuns == 2

\* patterns the v7 detector emits (analysis.js:342-598), by descending strength
PatternPoolV7 ==
    <<Pattern("Morning Star", "BUY", 98), Pattern("Bullish Engulfing", "BUY", 95),
      Pattern("Shooting Star", "SELL", 90), Pattern("Inverted Hammer", "BUY", 80),
      Pattern("Bearish Marubozu", "SELL", 80), Pattern("Doji", "HOLD", 70)>>

\* patterns the v6 detector emits (analysis.js:2147-2440), by descending strength
PatternPoolV6 ==
    <<Pattern("Morning Star", "BUY", 95), Pattern("Bullish Engulfing", "BUY", 90),
      Pattern("Bearish Marubozu", "SELL", 85), Pattern("Hammer", "BUY", 80),
      Pattern("Shooting Star", "SELL", 80), Pattern("Doji", "HOLD", 60)>>

\* the patterns of pool at the indices idx, in the pool's order
SubPool(pool, idx) ==
    LET F[i \in 0..Len(pool)] ==
            IF i = 0 THEN <<>>
            ELSE IF i \in idx THEN Append(F[i - 1], pool[i]) ELSE F[i - 1]
    IN  F[Len(pool)]

PatternLists(pool) ==
    {SubPool(pool, idx) :
        idx \in {T \in SUBSET (1..Len(pool)) : Cardinality(T) <= MaxPatterns}}

\* support/resistance result: strength = min(level.strength * 1.2, 1)
SrOptions == {Hold, Signal("BUY", 100), Signal("SELL", 100)}

\* Donchian result: strength 0.9 in v7 (analysis.js:831), 0.8 in v6 (analysis.js:3075)
DonchianOptions(st) == {Hold, Signal("BUY", st), Signal("SELL", st)}

Ma(sig, st, has, s9, s20, s50) ==
    [signal |-> sig, strength |-> st, hasIndicators |-> has,
     sma9 |-> s9, sma20 |-> s20, sma50 |-> s50]

\* analyzeMovingAverages: no indicators below 50 candles; 0.85 on a cross,
\* 0.7 on an alignment
NoMa == Ma("HOLD", 0, FALSE, 0, 0, 0)

MaOptions ==
    {NoMa, Ma("BUY", 70, TRUE, 12, 11, 10), Ma("SELL", 70, TRUE, 9, 10, 11),
     Ma("SELL", 85, TRUE, 12, 10, 11)}

MacdOptions == {Hold, Signal("BUY", 80), Signal("BUY", 100),
                Signal("SELL", 80), Signal("SELL", 100)}

Quant(pres, sig, st, vol, tr, r) ==
    [present |-> pres, hasIndicators |-> pres, signal |-> sig, strength |-> st,
     volatility |-> vol, trendStrength |-> tr, rsi |-> r]

\* performQuantitativeAnalysis: null below 14 candles, otherwise a result with its
\* indicators (volatility in thousandths, trendStrength in tenths, rsi a whole number)
NoQuant == Quant(FALSE, "HOLD", 0, 0, 0, 50)

QuantOptions ==
    {NoQuant, Quant(TRUE, "HOLD", 0, 10, 0, 50), Quant(TRUE, "BUY", 40, 25, 5, 20),
     Quant(TRUE, "BUY", 50, 10, 7, 10), Quant(TRUE, "SELL", 40, 35, -5, 80),
     Quant(TRUE, "SELL", 50, 45, -7, 90)}

OtherOptions == {Hold, Signal("BUY", 100), Signal("SELL", 100)}

Tech(sr, d, ma, m, q, l, tr) ==
    [supportResistance |-> sr, donchianChannels |-> d, movingAverages |-> ma,
     macd |-> m, quantitative |-> q, liquidity |-> l, trend |-> tr]

\* the technicalAnalysis of performTechnicalAnalysis (analysis.js:625-632)
TechInputsV7 ==
    {Tech(sr, d, ma, m, q, Hold, Hold) :
        sr \in SrOptions, d \in DonchianOptions(90), ma \in MaOptions,
        m \in MacdOptions, q \in QuantOptions}

\* the technicalAnalysis built by RealTimeAnalyzer.generateRecommendation
\* (analysis.js:2043-2054)
TechInputsLearning ==
    {Tech(sr, d, NoMa, Hold, q, l, tr) :
        sr \in SrOptions, d \in DonchianOptions(80), q \in QuantOptions,
        l \in OtherOptions, tr \in OtherOptions}

NoImage == <<>>

NoResult == [status |-> "idle"]

\* no upload yet: the upload area is shown and analysisInProgress is false.
\* view is the set of the areas displayed, progress the width of progressFill
\* (the steps up to it are active), url the upload that currentImageURL was
\* created for (0 for null), analysis the upload of the analysis started last,
\* timers and countdowns the analyses whose display timer or results countdown
\* is pending, resultsOf the analysis whose results were rendered last
NoRun ==
    [stage |-> "idle", file |-> <<>>, analysisInProgress |-> FALSE,
     view |-> {"uploadArea"}, progress |-> 0, url |-> 0, analysis |-> 0,
     errors |-> <<>>, shown |-> 0, executed |-> <<>>, scheduled |-> FALSE,
     timers |-> {}, countdowns |-> {}, resultsOf |-> 0, displayed |-> 0,
     closes |-> 0, closing |-> 0, uploads |-> 0, rejected |-> FALSE]

InitFusion ==
    /\ run = NoRun
    /\ revision \in {"v7", "learning"}
    /\ patterns \in PatternLists(IF revision = "v7" THEN PatternPoolV7 ELSE PatternPoolV6)
    /\ tech \in (IF revision = "v7" THEN TechInputsV7 ELSE TechInputsLearning)
    /\ patternAccuracy = <<>>
    /\ recs = <<>>
    /\ image = NoImage
    /\ extracted = NoResult
    /\ candles = <<>>
    /\ detected = NoResult
    /\ closes = <<>>
    /\ indicator = NoResult

\* performAdvancedAnalysis of the v7 revision (analysis.js:73-125), from the
\* recommendation on: nothing is stored
AnalyzeV7 ==
    /\ revision = "v7"
    /\ Len(recs) < MaxRuns
    /\ recs' = Append(recs, RecommendV7(patterns, tech))
    /\ UNCHANGED <<revision, patterns, tech, patternAccuracy>>
    /\ UNCHANGED <<extractVars, patternVars, indicatorVars, run>>

\* performAdvancedAnalysis of the learning revision (analysis.js:3790-3849), from
\* the recommendation on: analysisDB.saveResult follows the recommendation
AnalyzeLearning ==
    /\ revision = "learning"
    /\ Len(recs) < MaxRuns
    /\ LET rec == RecommendLearning(patterns, tech, patternAccuracy)
       IN  /\ recs' = Append(recs, rec)
           /\ patternAccuracy' =
                  UpdatePatternAccuracy(patternAccuracy, patterns, rec.confidence)
    /\ UNCHANGED <<revision, patterns, tech>>
    /\ UNCHANGED <<extractVars, patternVars, indicatorVars, run>>

NextFusion == AnalyzeV7 \/ AnalyzeLearning

SpecFusion == InitFusion /\ [][NextFusion]_vars

(***************************************************************************)
(* Properties of the fusion                                                *)
(***************************************************************************)
Returned == {recs[i] : i \in 1..Len(recs)}

ScoreTotal(r) == QAdd(r.buy, r.sell)

ScoreDiff(r) == QAbs(QSub(r.buy, r.sell))

\* c is 50 + 50 * diff / denom rounded to the nearest integer, halves up:
\* 2c - 1 <= 100 + 100 * diff / denom < 2c + 1
IsRounded(c, diff, denom) ==
    LET x == QAdd(Q(100, 1), QMul(Q(100, 1), QDiv(diff, denom)))
    IN  ~QLess(x, Q(2 * c - 1, 1)) /\ QLess(x, Q(2 * c + 1, 1))

ConfidenceIs(conf, diff, denom, cap) ==
    \E c \in 50..100 : IsRounded(c, diff, denom) /\ conf = Min(cap, c)

SideOf(r) == IF QLess(r.sell, r.buy) THEN "BUY" ELSE "SELL"

\* C1: a recommendation whose confidence is below 65 has action WAIT; a returned
\* BUY or SELL carries confidence >= 65
C1_ThresholdForcesWait ==
    \A r \in Returned :
        /\ r.confidence < 65 => r.action = "WAIT"
        /\ r.action \in {"BUY", "SELL"} => r.confidence >= 65

\* a one-sided result whose computed confidence, 50..64, was forced to WAIT
C1_Witness ==
    \E r \in Returned :
        /\ r.action = "WAIT"
        /\ r.confidence \in 50..64
        /\ r.buy # r.sell

C3_Original ==
    \A r \in Returned :
        (r.buy = Q(5, 1) /\ r.sell = Q(4, 1))
        => (r.confidence = 56 /\ r.action = "WAIT")

\* C3 amended: buy = 5.0, sell = 4.0 gives action WAIT with the fixed confidence
\* 40 of the no-clear-signal case in v7 (the difference 1.0 is below 1.5), and
\* WAIT with round(50 + 50 / 10) = 55 in the learning revision
C3_Amended ==
    \A r \in Returned :
        (r.buy = Q(5, 1) /\ r.sell = Q(4, 1))
        => /\ r.action = "WAIT"
           /\ r.confidence = (IF revision = "v7" THEN 40 ELSE 55)

\* the v7 fusion has returned for buy = 5.0, sell = 4.0
C3_Witness ==
    /\ revision = "v7"
    /\ \E r \in Returned : r.buy = Q(5, 1) /\ r.sell = Q(4, 1) /\ r.action = "WAIT"

\* C4: with total score 0 the fusion returns WAIT with the fixed confidence 40
\* (v7) or 45 (learning revision), below the threshold 65
C4_NoSignalDefault ==
    \A r \in Returned :
        ScoreTotal(r) = QZero
        => /\ r.action = "WAIT"
           /\ r.confidence = (IF revision = "v7" THEN 40 ELSE 45)
           /\ r.confidence < 65

AllHold ==
    /\ patterns = <<>>
    /\ tech.supportResistance.signal = "HOLD"
    /\ tech.donchianChannels.signal = "HOLD"
    /\ tech.movingAverages.signal = "HOLD"
    /\ tech.macd.signal = "HOLD"
    /\ tech.quantitative.present /\ tech.quantitative.signal = "HOLD"
    /\ tech.liquidity.signal = "HOLD"
    /\ tech.trend.signal = "HOLD"

\* the v7 fusion has returned for no pattern and every indicator at HOLD
C4_Witness ==
    /\ revision = "v7"
    /\ AllHold
    /\ \E r \in Returned : r.action = "WAIT" /\ r.confidence = 40

SameRecommendation(a, b) ==
    /\ a.action = b.action
    /\ a.confidence = b.confidence
    /\ a.profitTarget = b.profitTarget
    /\ a.riskLevel = b.riskLevel
    /\ a.summary = b.summary

\* C5 as stated: every run on the same input returns the same Recommendation as
\* the first run, whatever the first run left in the pattern-accuracy store
C5_Original ==
    \A i \in 1..Len(recs) : SameRecommendation(recs[1], recs[i])

(***************************************************************************)
(* Candle extraction: analyzeProfessionalCandlesticks (v7,                 *)
(* analysis.js:166-312) and RealTimeAnalyzer.extractOHLCData (v6,          *)
(* analysis.js:1889-1993).  The pixel buffer is width x height; a column   *)
(* of image.columns carries image.content (top row first), every other     *)
(* column is background.  Rows grow downwards, as in the canvas.           *)
(***************************************************************************)
ImgWidth == 8

ImgHeight == 3

\* the colours a chart is drawn with, as <<r, g, b>>
Background == <<20, 20, 30>>

Palette == << Background, <<0, 200, 0>>, <<200, 0, 0>>, <<40, 90, 40>> >>

\* config.candles of each revision; factors in tenths, chartAreaRatio in hundredths
CandlesV7 ==
    [scanCount |-> 150, minWidth |-> 2, chartAreaRatio |-> 90,
     colorFactor |-> 13, colorFloor |-> 100, floorHeight |-> TRUE, trailing |-> TRUE]

CandlesV6 ==
    [scanCount |-> 100, minWidth |-> 3, chartAreaRatio |-> 85,
     colorFactor |-> 12, colorFloor |-> 80, floorHeight |-> FALSE, trailing |-> FALSE]

\* cfg.greenCandle(r, g, b): g > r * f && g > b * f && g > floor
greenCandle(cfg, p) ==
    /\ 10 * p[2] > p[1] * cfg.colorFactor
    /\ 10 * p[2] > p[3] * cfg.colorFactor
    /\ p[2] > cfg.colorFloor

\* cfg.redCandle(r, g, b): r > g * f && r > b * f && r > floor
redCandle(cfg, p) ==
    /\ 10 * p[1] > p[2] * cfg.colorFactor
    /\ 10 * p[1] > p[3] * cfg.colorFactor
    /\ p[1] > cfg.colorFloor

\* pixels[(y * width + x) * 4 ..]
Pixel(img, x, y) ==
    IF x \in img.columns THEN Palette[img.content[y + 1]] ELSE Background

IsCandlePixel(img, cfg, x, y) ==
    greenCandle(cfg, Pixel(img, x, y)) \/ redCandle(cfg, Pixel(img, x, y))

\* the rows y of the loop "for (y = 0; y < height * chartAreaRatio; y++)"
ChartRows(img, cfg) ==
    {y \in 0..(img.height - 1) : 100 * y < img.height * cfg.chartAreaRatio}

IsCandleColumn(img, cfg, x) ==
    \E y \in ChartRows(img, cfg) : IsCandlePixel(img, cfg, x, y)

\* the column scan from x down to 1: cur is <<>> (null) or <<currentCandle>>,
\* acc the candles pushed so far; the break leaves currentCandle as it is
RECURSIVE ScanColumns(_, _, _, _, _)
ScanColumns(img, cfg, x, cur, acc) ==
    IF x <= 0 THEN [current |-> cur, candles |-> acc]
    ELSE IF IsCandleColumn(img, cfg, x)
    THEN ScanColumns(img, cfg, x - 1,
                     << [x_end |-> IF cur = <<>> THEN x ELSE cur[1].x_end,
                         x_start |-> x] >>, acc)
    ELSE IF cur # <<>> /\ cur[1].x_end - cur[1].x_start >= cfg.minWidth
    THEN IF Len(acc) + 1 >= cfg.scanCount
         THEN [current |-> cur, candles |-> Append(acc, cur[1])]
         ELSE ScanColumns(img, cfg, x - 1, <<>>, Append(acc, cur[1]))
    ELSE ScanColumns(img, cfg, x - 1, <<>>, acc)

\* the push after the loop without its test of candles.length
DetectColumns_NoCap(img, cfg) ==
    LET s == ScanColumns(img, cfg, img.width - 1, <<>>, <<>>)
    IN  IF /\ cfg.trailing
           /\ s.current # <<>>
           /\ s.current[1].x_end - s.current[1].x_start >= cfg.minWidth
        THEN Append(s.candles, s.current[1])
        ELSE s.candles

\* the candles found, most recent (rightmost) first; v7 also pushes a run that
\* is still open when the scan reaches column 1
DetectColumns(img, cfg) ==
    LET s == ScanColumns(img, cfg, img.width - 1, <<>>, <<>>)
    IN  IF /\ cfg.trailing
           /\ s.current # <<>>
           /\ s.current[1].x_end - s.current[1].x_start >= cfg.minWidth
           /\ Len(s.candles) < cfg.scanCount
        THEN Append(s.candles, s.current[1])
        ELSE s.candles

SetMin(S) == CHOOSE y \in S : \A z \in S : y <= z

SetMax(S) == CHOOSE y \in S : \A z \in S : y >= z

MidX(c) == MathRound(Q(c.x_start + c.x_end, 2))

\* candle.isGreen = greenPixels > redPixels; candle.isRed = !candle.isGreen
CandleColor_StrictRed(greenPixels, redPixels) ==
    [isGreen |-> greenPixels > redPixels, isRed |-> redPixels > greenPixels]

CandleColor(greenPixels, redPixels) ==
    [isGreen |-> greenPixels > redPixels, isRed |-> ~(greenPixels > redPixels)]

GreenPixels(img, cfg, x, high, low) ==
    Cardinality({y \in high..low : greenCandle(cfg, Pixel(img, x, y))})

RedPixels(img, cfg, x, high, low) ==
    Cardinality({y \in high..low : redCandle(cfg, Pixel(img, x, y))})

\* JavaScript division of integers: 0/0 is NaN, n/0 is Infinity or -Infinity
NaN == <<0, 0>>

Infinity == <<1, 0>>

JsDiv(n, d) ==
    IF d = 0 THEN (IF n = 0 THEN NaN ELSE IF n > 0 THEN Infinity ELSE <<-1, 0>>)
    ELSE Q(n, d)

\* candle.totalHeight: Math.max(1, low - high) in v7, low - high in v6
TotalHeight(cfg, high, low) ==
    IF cfg.floorHeight THEN Max(1, low - high) ELSE low - high

\* the body of the loop "for (const candle of candles)"
\* ProcessCandle with the body ended by the first row that does not match
ProcessCandle_BodyEndsAtGap(img, cfg, c) ==
    LET midX == MidX(c)
        rows == {y \in ChartRows(img, cfg) : IsCandlePixel(img, cfg, midX, y)}
        high == IF rows = {} THEN img.height ELSE SetMin(rows)
        low == IF rows = {} THEN 0 ELSE SetMax(rows)
        color == CandleColor(GreenPixels(img, cfg, midX, high, low),
                             RedPixels(img, cfg, midX, high, low))
        body == {y \in high..low :
                    \/ color.isGreen /\ greenCandle(cfg, Pixel(img, midX, y))
                    \/ color.isRed /\ redCandle(cfg, Pixel(img, midX, y))}
        bodyHigh == IF body = {} THEN img.height ELSE SetMin(body)
        bodyLow == IF body = {} THEN 0
                   ELSE SetMax({y \in body : \A z \in bodyHigh..y : z \in body})
        totalHeight == TotalHeight(cfg, high, low)
        open == IF color.isGreen THEN bodyLow ELSE bodyHigh
        close == IF color.isGreen THEN bodyHigh ELSE bodyLow
        bodyHeight == Abs(close - open)
        upperWick == (IF color.isGreen THEN close ELSE open) - high
        lowerWick == low - (IF color.isGreen THEN open ELSE close)
        wickDivisor == IF cfg.floorHeight THEN Max(1, totalHeight) ELSE totalHeight
    IN  [x_start |-> c.x_start, x_end |-> c.x_end,
         isGreen |-> color.isGreen, isRed |-> color.isRed,
         high |-> high, low |-> low, totalHeight |-> totalHeight,
         bodyTop |-> bodyHigh, bodyBottom |-> bodyLow,
         open |-> open, close |-> close, bodyHeight |-> bodyHeight,
         upperWick |-> upperWick, lowerWick |-> lowerWick,
         bodyRatio |-> JsDiv(bodyHeight, totalHeight),
         upperWickRatio |-> JsDiv(upperWick, wickDivisor),
         lowerWickRatio |-> JsDiv(lowerWick, wickDivisor)]

ProcessCandle(img, cfg, c) ==
    LET midX == MidX(c)
        rows == {y \in ChartRows(img, cfg) : IsCandlePixel(img, cfg, midX, y)}
        high == IF rows = {} THEN img.height ELSE SetMin(rows)
        low == IF rows = {} THEN 0 ELSE SetMax(rows)
        color == CandleColor(GreenPixels(img, cfg, midX, high, low),
                             RedPixels(img, cfg, midX, high, low))
        body == {y \in high..low :
                    \/ color.isGreen /\ greenCandle(cfg, Pixel(img, midX, y))
                    \/ color.isRed /\ redCandle(cfg, Pixel(img, midX, y))}
        bodyHigh == IF body = {} THEN img.height ELSE SetMin(body)
        bodyLow == IF body = {} THEN 0 ELSE SetMax(body)
        totalHeight == TotalHeight(cfg, high, low)
        open == IF color.isGreen THEN bodyLow ELSE bodyHigh
        close == IF color.isGreen THEN bodyHigh ELSE bodyLow
        bodyHeight == Abs(close - open)
        upperWick == (IF color.isGreen THEN close ELSE open) - high
        lowerWick == low - (IF color.isGreen THEN open ELSE close)
        wickDivisor == IF cfg.floorHeight THEN Max(1, totalHeight) ELSE totalHeight
    IN  [x_start |-> c.x_start, x_end |-> c.x_end,
         isGreen |-> color.isGreen, isRed |-> color.isRed,
         high |-> high, low |-> low, totalHeight |-> totalHeight,
         bodyTop |-> bodyHigh, bodyBottom |-> bodyLow,
         open |-> open, close |-> close, bodyHeight |-> bodyHeight,
         upperWick |-> upperWick, lowerWick |-> lowerWick,
         bodyRatio |-> JsDiv(bodyHeight, totalHeight),
         upperWickRatio |-> JsDiv(upperWick, wickDivisor),
         lowerWickRatio |-> JsDiv(lowerWick, wickDivisor)]

\* candles left in the order of discovery
Reverse_Identity(s) == s

\* candles.reverse()
Reverse(s) == [i \in 1..Len(s) |-> s[Len(s) + 1 - i]]

\* candles.filter(c => c.totalHeight > 0)
ValidCandles_NonNegative(cands) == SelectSeq(cands, LAMBDA c : c.totalHeight >= 0)

ValidCandles(cands) == SelectSeq(cands, LAMBDA c : c.totalHeight > 0)

\* the candles of the image in chronological order, oldest (leftmost) first
ProcessedCandles(img, cfg) ==
    LET found == DetectColumns(img, cfg)
    IN  ValidCandles(Reverse([i \in 1..Len(found) |-> ProcessCandle(img, cfg, found[i])]))

\* analyzeProfessionalCandlesticks: throws when no candle or no valid candle is found
ExtractV7(img) ==
    IF DetectColumns(img, CandlesV7) = <<>>
    THEN [status |-> "error", revision |-> "v7", candles |-> <<>>,
          message |-> "No candles detected in chart image"]
    ELSE IF ProcessedCandles(img, CandlesV7) = <<>>
    THEN [status |-> "error", revision |-> "v7", candles |-> <<>>,
          message |-> "No valid candles found after processing"]
    ELSE [status |-> "ok", revision |-> "v7",
          candles |-> ProcessedCandles(img, CandlesV7), message |-> ""]

\* extractOHLCData: throws when no candle is found, returns validCandles otherwise
ExtractV6(img) ==
    IF DetectColumns(img, CandlesV6) = <<>>
    THEN [status |-> "error", revision |-> "v6", candles |-> <<>>,
          message |-> "No candles detected in chart image"]
    ELSE [status |-> "ok", revision |-> "v6",
          candles |-> ProcessedCandles(img, CandlesV6), message |-> ""]

Images ==
    [width : {ImgWidth}, height : {ImgHeight},
     columns : SUBSET (0..(ImgWidth - 1)),
     content : [1..ImgHeight -> 1..Len(Palette)]]

InitExtract ==
    /\ run = NoRun
    /\ image \in Images
    /\ extracted = NoResult
    /\ revision = "v7" /\ patterns = <<>> /\ tech = <<>>
    /\ patternAccuracy = <<>> /\ recs = <<>>
    /\ candles = <<>> /\ detected = NoResult
    /\ closes = <<>> /\ indicator = NoResult

analyzeProfessionalCandlesticks ==
    /\ extracted = NoResult
    /\ extracted' = ExtractV7(image)
    /\ UNCHANGED <<image, fusionVars, patternVars, indicatorVars>>

extractOHLCData ==
    /\ extracted = NoResult
    /\ extracted' = ExtractV6(image)
    /\ UNCHANGED <<image, fusionVars, patternVars, indicatorVars>>

NextExtract == analyzeProfessionalCandlesticks \/ extractOHLCData

SpecExtract == InitExtract /\ [][NextExtract]_vars

CfgOf(rev) == IF rev = "v7" THEN CandlesV7 ELSE CandlesV6

ExtractedCandles ==
    IF extracted.status = "ok" THEN {extracted.candles[i] : i \in 1..Len(extracted.candles)}
    ELSE {}

\* C9: every candle produced by extraction has exactly one of isGreen and isRed
\* true, whatever its pixel column holds, equal green and red counts included
C9_ExactlyOneColor ==
    \A c \in ExtractedCandles : c.isGreen # c.isRed

\* a candle has been extracted whose column holds as many green as red pixels
C9_Witness ==
    \E c \in ExtractedCandles :
        /\ GreenPixels(image, CfgOf(extracted.revision), MidX(c), c.high, c.low)
             = RedPixels(image, CfgOf(extracted.revision), MidX(c), c.high, c.low)
        /\ c.isRed /\ ~c.isGreen

InUnit(q) == q[2] > 0 /\ 0 <= q[1] /\ q[1] <= q[2]

\* C10: every candle returned by extraction has bodyRatio, upperWickRatio and
\* lowerWickRatio in [0, 1], and its divisor totalHeight is max(1, low - high),
\* never zero
C10_RatiosInUnit ==
    \A c \in ExtractedCandles :
        /\ InUnit(c.bodyRatio) /\ InUnit(c.upperWickRatio) /\ InUnit(c.lowerWickRatio)
        /\ c.totalHeight = Max(1, c.low - c.high)
        /\ c.totalHeight # 0

\* a candle whose silhouette is a single pixel row has been returned
C10_Witness ==
    \E c \in ExtractedCandles :
        c.low = c.high /\ c.totalHeight = 1 /\ c.bodyRatio = QZero

(***************************************************************************)
(* Pattern detection: detectAllCandlestickPatterns (v7, analysis.js:315-   *)
(* 602).  The detector reads isGreen, isRed, open, close, high, low,       *)
(* bodyHeight and the three ratios of the last three candles.  Its callers *)
(* hand it extracted candles, and script.js:490-499 hands it candles       *)
(* written by hand in prices (larger is higher); the candles below are of  *)
(* the second kind, with colour, open and close chosen freely.             *)
(***************************************************************************)
MaxCandles == 3

Prices == 1..3

\* the wicks <<above the body, below the body>> a hand-written candle may have
WickShapes == { <<0, 0>>, <<3, 0>>, <<0, 3>> }

\* a candle in prices with the derived fields of analysis.js:277-289
PriceCandle(isGreen, open, close, wicks) ==
    LET high == Max(open, close) + wicks[1]
        low == Min(open, close) - wicks[2]
        totalHeight == Max(1, high - low)
        bodyHeight == Abs(close - open)
    IN  [isGreen |-> isGreen, isRed |-> ~isGreen,
         open |-> open, close |-> close, high |-> high, low |-> low,
         bodyHeight |-> bodyHeight, totalHeight |-> totalHeight,
         bodyRatio |-> Q(bodyHeight, totalHeight),
         upperWickRatio |-> Q(wicks[1], totalHeight),
         lowerWickRatio |-> Q(wicks[2], totalHeight)]

PlainCandles ==
    {PriceCandle(g, o, c, <<0, 0>>) : g \in BOOLEAN, o \in Prices, c \in Prices}

LastCandles ==
    UNION {{PriceCandle(g, o, c, w) : g \in BOOLEAN, o \in Prices, c \in Prices}
               : w \in WickShapes}

\* the sequences of n candles; only the last candle carries wicks
CandleSeqs(n) ==
    {Append(s, c) : s \in [1..(n - 1) -> PlainCandles], c \in LastCandles}

dojiBodyRatioV7 == Q(5, 100)

wickRatioV7 == Q(25, 10)

isDoji(candle) == QLess(candle.bodyRatio, dojiBodyRatioV7)

hasLongUpperWick(candle) ==
    QLess(QMul(candle.lowerWickRatio, wickRatioV7), candle.upperWickRatio)

hasLongLowerWick(candle) ==
    QLess(QMul(candle.upperWickRatio, wickRatioV7), candle.lowerWickRatio)

\* patterns.push(...) when the condition holds
PushIf(cond, name, sig, st) == IF cond THEN <<Pattern(name, sig, st)>> ELSE <<>>

\* patterns.sort((a, b) => b.strength - a.strength): stable, strongest first
RECURSIVE SortByStrength(_)
SortByStrength(s) ==
    IF s = <<>> THEN <<>>
    ELSE LET n == Len(s)
             front == SortByStrength(SubSeq(s, 1, n - 1))
             x == s[n]
             k == Cardinality({i \in 1..(n - 1) : front[i].strength >= x.strength})
         IN  SubSeq(front, 1, k) \o <<x>> \o SubSeq(front, k + 1, n - 1)

\* SingleCandlePatternsV7 with Hammer and Inverted Hammer on green candles only
SingleCandlePatternsV7_GreenReversals(c0) ==
    PushIf(isDoji(c0), "Doji", "HOLD", 70)
    \o PushIf(QLess(c0.bodyRatio, Q(3, 10)) /\ hasLongLowerWick(c0)
              /\ QLess(Q(1, 2), c0.lowerWickRatio) /\ c0.isGreen,
              "Hammer", "BUY", 90)
    \o PushIf(QLess(c0.bodyRatio, Q(3, 10)) /\ hasLongUpperWick(c0)
              /\ QLess(Q(1, 2), c0.upperWickRatio) /\ c0.isGreen,
              "Inverted Hammer", "BUY", 80)
    \o PushIf(QLess(c0.bodyRatio, Q(3, 10)) /\ hasLongUpperWick(c0)
              /\ QLess(Q(1, 2), c0.upperWickRatio) /\ c0.isRed,
              "Shooting Star", "SELL", 90)
    \o PushIf(QLess(c0.bodyRatio, Q(3, 10)) /\ hasLongLowerWick(c0)
              /\ QLess(Q(1, 2), c0.lowerWickRatio) /\ c0.isRed,
              "Hanging Man", "SELL", 80)
    \o PushIf(QLess(Q(7, 10), c0.bodyRatio) /\ c0.isGreen, "Bullish Marubozu", "BUY", 80)
    \o PushIf(QLess(Q(7, 10), c0.bodyRatio) /\ c0.isRed, "Bearish Marubozu", "SELL", 80)

SingleCandlePatternsV7(c0) ==
    PushIf(isDoji(c0), "Doji", "HOLD", 70)
    \o PushIf(QLess(c0.bodyRatio, Q(3, 10)) /\ hasLongLowerWick(c0)
              /\ QLess(Q(1, 2), c0.lowerWickRatio), "Hammer", "BUY", 90)
    \o PushIf(QLess(c0.bodyRatio, Q(3, 10)) /\ hasLongUpperWick(c0)
              /\ QLess(Q(1, 2), c0.upperWickRatio), "Inverted Hammer", "BUY", 80)
    \o PushIf(QLess(c0.bodyRatio, Q(3, 10)) /\ hasLongUpperWick(c0)
              /\ QLess(Q(1, 2), c0.upperWickRatio) /\ c0.isRed,
              "Shooting Star", "SELL", 90)
    \o PushIf(QLess(c0.bodyRatio, Q(3, 10)) /\ hasLongLowerWick(c0)
              /\ QLess(Q(1, 2), c0.lowerWickRatio) /\ c0.isRed,
              "Hanging Man", "SELL", 80)
    \o PushIf(QLess(Q(7, 10), c0.bodyRatio) /\ c0.isGreen, "Bullish Marubozu", "BUY", 80)
    \o PushIf(QLess(Q(7, 10), c0.bodyRatio) /\ c0.isRed, "Bearish Marubozu", "SELL", 80)

\* BullishEngulfing with the comparisons of a scale that grows downwards
BullishEngulfing_RowScale(c0, c1) ==
    /\ c0.isGreen /\ c1.isRed
    /\ c0.close < c1.open /\ c0.open > c1.close
    /\ c0.bodyHeight > c1.bodyHeight

BullishEngulfing(c0, c1) ==
    /\ c0.isGreen /\ c1.isRed
    /\ c0.close > c1.open /\ c0.open < c1.close
    /\ c0.bodyHeight > c1.bodyHeight

TwoCandlePatternsV7(c0, c1) ==
    PushIf(BullishEngulfing(c0, c1), "Bullish Engulfing", "BUY", 95)
    \o PushIf(c0.isRed /\ c1.isGreen /\ c0.close < c1.open /\ c0.open > c1.close
              /\ c0.bodyHeight > c1.bodyHeight, "Bearish Engulfing", "SELL", 95)
    \o PushIf(c1.isRed /\ c0.isGreen /\ c0.open > c1.close /\ c0.close < c1.open,
              "Bullish Harami", "BUY", 75)
    \o PushIf(c1.isGreen /\ c0.isRed /\ c0.open < c1.close /\ c0.close > c1.open,
              "Bearish Harami", "SELL", 75)
    \o PushIf(c1.isRed /\ c0.isGreen /\ c0.open < c1.low
              /\ 2 * c0.close > c1.open + c1.close, "Piercing Line", "BUY", 85)
    \o PushIf(c1.isGreen /\ c0.isRed /\ c0.open > c1.high
              /\ 2 * c0.close < c1.open + c1.close, "Dark Cloud Cover", "SELL", 85)
    \o PushIf(100 * Abs(c1.high - c0.high) < c1.high - c1.low
              /\ c1.isGreen /\ c0.isRed, "Tweezer Top", "SELL", 70)
    \o PushIf(100 * Abs(c1.low - c0.low) < c1.high - c1.low
              /\ c1.isRed /\ c0.isGreen, "Tweezer Bottom", "BUY", 70)

ThreeCandlePatternsV7(c0, c1, c2) ==
    PushIf(c2.isRed /\ isDoji(c1) /\ c0.isGreen /\ c0.close > c2.open,
           "Morning Star", "BUY", 98)
    \o PushIf(c2.isGreen /\ isDoji(c1) /\ c0.isRed /\ c0.close < c2.open,
              "Evening Star", "SELL", 98)
    \o PushIf(c2.isGreen /\ c1.isGreen /\ c0.isGreen
              /\ c1.close > c2.close /\ c0.close > c1.close
              /\ c1.open > c2.open /\ c0.open > c1.open,
              "Three White Soldiers", "BUY", 90)
    \o PushIf(c2.isRed /\ c1.isRed /\ c0.isRed
              /\ c1.close < c2.close /\ c0.close < c1.close
              /\ c1.open < c2.open /\ c0.open < c1.open,
              "Three Black Crows", "SELL", 90)
    \o PushIf(c2.isRed /\ c1.isGreen /\ c1.open > c2.close /\ c1.close < c2.open
              /\ c0.isGreen /\ c0.close > c1.close, "Three Inside Up", "BUY", 80)
    \o PushIf(c2.isGreen /\ c1.isRed /\ c1.open < c2.close /\ c1.close > c2.open
              /\ c0.isRed /\ c0.close < c1.close, "Three Inside Down", "SELL", 80)
    \o PushIf(c2.isGreen /\ c1.isRed /\ c0.isGreen
              /\ c1.open < c2.close /\ c1.close > c0.open
              /\ c1.bodyHeight < Min(c2.bodyHeight, c0.bodyHeight),
              "Rising Three Methods", "BUY", 85)
    \o PushIf(c2.isRed /\ c1.isGreen /\ c0.isRed
              /\ c1.open > c2.close /\ c1.close < c0.open
              /\ c1.bodyHeight < Min(c2.bodyHeight, c0.bodyHeight),
              "Falling Three Methods", "SELL", 85)

GapPatternsV7(c0, c1) ==
    PushIf(c0.low > c1.high, "Gap Up", "BUY", 70)
    \o PushIf(c0.high < c1.low, "Gap Down", "SELL", 70)

\* detectAllCandlestickPatterns(candles): nothing for fewer than 3 candles; c1 and
\* c2 are null when the sequence has no such candle
DetectV7(cs) ==
    LET len == Len(cs)
    IN  IF len < 3 THEN <<>>
        ELSE SortByStrength(
                 SingleCandlePatternsV7(cs[len])
                 \o (IF len >= 2 THEN TwoCandlePatternsV7(cs[len], cs[len - 1]) ELSE <<>>)
                 \o (IF len >= 3
                     THEN ThreeCandlePatternsV7(cs[len], cs[len - 1], cs[len - 2])
                     ELSE <<>>)
                 \o (IF len >= 2 THEN GapPatternsV7(cs[len], cs[len - 1]) ELSE <<>>))

InitPatterns ==
    /\ run = NoRun
    /\ \E n \in 1..MaxCandles : candles \in CandleSeqs(n)
    /\ detected = NoResult
    /\ revision = "v7" /\ patterns = <<>> /\ tech = <<>>
    /\ patternAccuracy = <<>> /\ recs = <<>>
    /\ image = NoImage /\ extracted = NoResult
    /\ closes = <<>> /\ indicator = NoResult

detectAllCandlestickPatterns ==
    /\ detected = NoResult
    /\ detected' = [status |-> "ok", patterns |-> DetectV7(candles)]
    /\ UNCHANGED <<candles, fusionVars, extractVars, indicatorVars>>

NextPatterns == detectAllCandlestickPatterns

SpecPatterns == InitPatterns /\ [][NextPatterns]_vars

\* C6 as stated: for every sequence of at least 2 candles whose last candle is
\* green and whose previous candle is red with close[N] > open[N-1],
\* open[N] < close[N-1] and bodyHeight[N] > bodyHeight[N-1], the returned list
\* holds a pattern named Bullish Engulfing with signal BUY
C6_Original ==
    (/\ detected.status = "ok"
     /\ Len(candles) >= 2
     /\ BullishEngulfing(candles[Len(candles)], candles[Len(candles) - 1]))
    => \E i \in 1..Len(detected.patterns) :
           /\ detected.patterns[i].name = "Bullish Engulfing"
           /\ detected.patterns[i].signal = "BUY"

(***************************************************************************)
(* Donchian channels: analyzeDonchianChannels (v7, analysis.js:796-874,    *)
(* and v6, analysis.js:3052-3109).  An indicator reads close, high and low *)
(* of each candle.  Thresholds are compared in integers: 0.015 as 15/1000, *)
(* 0.02 as 2/100.                                                          *)
(***************************************************************************)
Bar(low, close, high) == [low |-> low, close |-> close, high |-> high]

\* candles with low <= close <= high, and those of a flat stretch
Bars == {Bar(l, c, h) : l \in Prices, c \in Prices, h \in Prices} \ 
            {b \in [low : Prices, close : Prices, high : Prices] :
                 b.low > b.close \/ b.close > b.high}

FlatBars == {Bar(p, p, p) : p \in Prices}

\* lengths below the first period, at the first period and at the second period
SeriesLengths == {19, 20, 50}

\* a flat stretch of candles f followed by the three candles of tail, n in all
Series(n, f, tail) ==
    [i \in 1..n |-> IF i <= n - 3 THEN f ELSE tail[i - (n - 3)]]

\* config.donchian.periods
DonchianPeriods == <<20, 50>>

\* candles.slice(-n)
LastN(cs, n) == SubSeq(cs, Max(1, Len(cs) - n + 1), Len(cs))

Highest(cs) == SetMax({cs[i].high : i \in 1..Len(cs)})

Lowest(cs) == SetMin({cs[i].low : i \in 1..Len(cs)})

\* v7: price > highest - (highest - lowest) * 0.015
AboveBandV7(price, highest, lowest) ==
    1000 * price > 1000 * highest - 15 * (highest - lowest)

\* v7: price < lowest + (highest - lowest) * 0.015
BelowBandV7(price, highest, lowest) ==
    1000 * price < 1000 * lowest + 15 * (highest - lowest)

\* v6: price > highest * (1 - 0.02)
AboveBandV6(price, highest, lowest) == 100 * price > 98 * highest

\* v6: price < lowest * (1 + 0.02)
BelowBandV6(price, highest, lowest) == 100 * price < 102 * lowest

PeriodResult(period, highest, lowest, signal, strength, position) ==
    [period |-> period, highest |-> highest, lowest |-> lowest,
     middle |-> Q(highest + lowest, 2),
     signal |-> signal, strength |-> strength, position |-> position]

\* recent.every(c => ...) over candles.slice(-3), when there are 3 candles
ConfirmedV7(cs, above, highest, lowest) ==
    Len(cs) >= 3
    => \A i \in 1..3 :
           IF above THEN AboveBandV7(LastN(cs, 3)[i].close, highest, lowest)
           ELSE BelowBandV7(LastN(cs, 3)[i].close, highest, lowest)

\* the body of periods.forEach in v7
DonchianPeriodV7(cs, period) ==
    LET highest == Highest(LastN(cs, period))
        lowest == Lowest(LastN(cs, period))
        currentPrice == cs[Len(cs)].close
    IN  IF AboveBandV7(currentPrice, highest, lowest)
        THEN IF ConfirmedV7(cs, TRUE, highest, lowest)
             THEN PeriodResult(period, highest, lowest, "BUY", 90, "upper_breakout")
             ELSE PeriodResult(period, highest, lowest, "HOLD", 0, "middle")
        ELSE IF BelowBandV7(currentPrice, highest, lowest)
        THEN IF ConfirmedV7(cs, FALSE, highest, lowest)
             THEN PeriodResult(period, highest, lowest, "SELL", 90, "lower_breakout")
             ELSE PeriodResult(period, highest, lowest, "HOLD", 0, "middle")
        ELSE PeriodResult(period, highest, lowest, "HOLD", 0, "middle")

\* the body of periods.forEach in v6
DonchianPeriodV6(cs, period) ==
    LET highest == Highest(LastN(cs, period))
        lowest == Lowest(LastN(cs, period))
        currentPrice == cs[Len(cs)].close
    IN  IF AboveBandV6(currentPrice, highest, lowest)
        THEN PeriodResult(period, highest, lowest, "BUY", 80, "upper_breakout")
        ELSE IF BelowBandV6(currentPrice, highest, lowest)
        THEN PeriodResult(period, highest, lowest, "SELL", 80, "lower_breakout")
        ELSE PeriodResult(period, highest, lowest, "HOLD", 0, "middle")

\* results.reduce: the first result of the greatest strength, HOLD when none
RECURSIVE Strongest(_, _)
Strongest(results, best) ==
    IF results = <<>> THEN best
    ELSE Strongest(Tail(results),
                   IF Head(results).strength > best.strength
                   THEN [signal |-> Head(results).signal,
                         strength |-> Head(results).strength,
                         position |-> Head(results).position]
                   ELSE best)

\* analyzeDonchianChannels of the revision rev
AnalyzeDonchian(cs, rev) ==
    IF Len(cs) < 20
    THEN [signal |-> "HOLD", strength |-> 0, position |-> "middle", allPeriods |-> <<>>]
    ELSE LET used == SelectSeq(DonchianPeriods, LAMBDA p : Len(cs) >= p)
             results == [i \in 1..Len(used) |->
                            IF rev = "v7" THEN DonchianPeriodV7(cs, used[i])
                            ELSE DonchianPeriodV6(cs, used[i])]
             best == Strongest(results,
                               [signal |-> "HOLD", strength |-> 0,
                                position |-> "undefined"])
         IN  [signal |-> best.signal, strength |-> best.strength,
              position |-> best.position, allPeriods |-> results]

InitDonchian ==
    /\ run = NoRun
    /\ \E n \in SeriesLengths, f \in FlatBars, tail \in [1..3 -> Bars] :
           closes = Series(n, f, tail)
    /\ indicator = NoResult
    /\ revision = "v7" /\ patterns = <<>> /\ tech = <<>>
    /\ patternAccuracy = <<>> /\ recs = <<>>
    /\ image = NoImage /\ extracted = NoResult
    /\ candles = <<>> /\ detected = NoResult

analyzeDonchianChannelsV7 ==
    /\ indicator = NoResult
    /\ indicator' = [status |-> "ok", revision |-> "v7",
                     result |-> AnalyzeDonchian(closes, "v7")]
    /\ UNCHANGED <<closes, fusionVars, extractVars, patternVars>>

analyzeDonchianChannelsV6 ==
    /\ indicator = NoResult
    /\ indicator' = [status |-> "ok", revision |-> "v6",
                     result |-> AnalyzeDonchian(closes, "v6")]
    /\ UNCHANGED <<closes, fusionVars, extractVars, patternVars>>

NextDonchian == analyzeDonchianChannelsV7 \/ analyzeDonchianChannelsV6

SpecDonchian == InitDonchian /\ [][NextDonchian]_vars

\* the close of the k-th candle from the end (0 is the latest) lies beyond the
\* upper or lower threshold band of the period result r, in the revision that ran
BeyondUpper(r, k) ==
    IF indicator.revision = "v7"
    THEN AboveBandV7(closes[Len(closes) - k].close, r.highest, r.lowest)
    ELSE AboveBandV6(closes[Len(closes) - k].close, r.highest, r.lowest)

BeyondLower(r, k) ==
    IF indicator.revision = "v7"
    THEN BelowBandV7(closes[Len(closes) - k].close, r.highest, r.lowest)
    ELSE BelowBandV6(closes[Len(closes) - k].close, r.highest, r.lowest)

PeriodResults ==
    IF indicator.status = "ok"
    THEN {indicator.result.allPeriods[i] : i \in 1..Len(indicator.result.allPeriods)}
    ELSE {}

\* C7 as stated: a period signals BUY or SELL only if each of the last 3 closes
\* lies beyond that period's threshold band, and a close that spikes beyond the
\* band followed by two closes that retrace yields HOLD
C7_Original ==
    \A r \in PeriodResults :
        /\ r.signal = "BUY" => \A k \in 0..2 : BeyondUpper(r, k)
        /\ r.signal = "SELL" => \A k \in 0..2 : BeyondLower(r, k)
        /\ (BeyondUpper(r, 2) /\ ~BeyondUpper(r, 1) /\ ~BeyondUpper(r, 0))
               => r.signal = "HOLD"
        /\ (BeyondLower(r, 2) /\ ~BeyondLower(r, 1) /\ ~BeyondLower(r, 0))
               => r.signal = "HOLD"

(***************************************************************************)
(* RSI: calculateRSI (analysis.js:1183-1204)                               *)
(***************************************************************************)
MaxSeries == 4

MaxPeriod == 3

\* the sequences of n candles, told apart by their closes
CloseSeries(n) == [1..n -> FlatBars]

\* candles[i].close - candles[i - 1].close for the 0-based index i
Change(cs, i) == cs[i + 1].close - cs[i].close

RECURSIVE SumInts(_)
SumInts(s) == IF s = <<>> THEN 0 ELSE Head(s) + SumInts(Tail(s))

\* the window of the loop "for (i = length - period; i < length; i++)"
RsiWindow(cs, period) == (Len(cs) - period)..(Len(cs) - 1)

Gains(cs, period) ==
    SumInts([k \in 1..period |->
                 LET change == Change(cs, Len(cs) - period + k - 1)
                 IN  IF change > 0 THEN change ELSE 0])

Losses(cs, period) ==
    SumInts([k \in 1..period |->
                 LET change == Change(cs, Len(cs) - period + k - 1)
                 IN  IF change > 0 THEN 0 ELSE -change])

\* 100 - 100 / (1 + avgGain / avgLoss) in JavaScript arithmetic, without the
\* test of avgLoss: x / 0 is Infinity and 100 / Infinity is 0, 0 / 0 is NaN
RsiValue_Unguarded(avgGain, avgLoss) ==
    IF avgLoss = QZero
    THEN (IF avgGain = QZero THEN NaN ELSE Q(100, 1))
    ELSE QSub(Q(100, 1), QDiv(Q(100, 1), QAdd(Q(1, 1), QDiv(avgGain, avgLoss))))

\* if (avgLoss === 0) return 100; return 100 - (100 / (1 + avgGain / avgLoss))
RsiValue(avgGain, avgLoss) ==
    IF avgLoss = QZero THEN Q(100, 1)
    ELSE QSub(Q(100, 1), QDiv(Q(100, 1), QAdd(Q(1, 1), QDiv(avgGain, avgLoss))))

calculateRSI(cs, period) ==
    IF Len(cs) <= period THEN Q(50, 1)
    ELSE RsiValue(Q(Gains(cs, period), period), Q(Losses(cs, period), period))

InitRSI ==
    /\ run = NoRun
    /\ \E n \in 0..MaxSeries : closes \in CloseSeries(n)
    /\ indicator = NoResult
    /\ revision = "v7" /\ patterns = <<>> /\ tech = <<>>
    /\ patternAccuracy = <<>> /\ recs = <<>>
    /\ image = NoImage /\ extracted = NoResult
    /\ candles = <<>> /\ detected = NoResult

RunCalculateRSI ==
    /\ indicator = NoResult
    /\ \E period \in 1..MaxPeriod :
           indicator' = [status |-> "ok", period |-> period,
                         rsi |-> calculateRSI(closes, period)]
    /\ UNCHANGED <<closes, fusionVars, extractVars, patternVars>>

NextRSI == RunCalculateRSI

SpecRSI == InitRSI /\ [][NextRSI]_vars

\* no close of the last `period` close-to-close changes is below its predecessor
NoLossInWindow ==
    \A i \in RsiWindow(closes, indicator.period) : closes[i + 1].close >= closes[i].close

\* C8: calculateRSI returns exactly 50 for fewer candles than the period, and
\* exactly 100 when the average loss over the last `period` changes is 0, a
\* completely flat window included
C8_RsiEdgeValues ==
    indicator.status = "ok"
    => /\ Len(closes) < indicator.period => indicator.rsi = Q(50, 1)
       /\ (Len(closes) > indicator.period /\ NoLossInWindow)
              => indicator.rsi = Q(100, 1)

\* calculateRSI has returned 100 for a completely flat window
C8_Witness ==
    /\ indicator.status = "ok"
    /\ Len(closes) > indicator.period
    /\ \A i \in RsiWindow(closes, indicator.period) : closes[i + 1].close = closes[i].close
    /\ indicator.rsi = Q(100, 1)

(***************************************************************************)
(* Order of the extracted candles                                          *)
(***************************************************************************)
\* C11: the returned candles are in chronological order: x_start strictly
\* increases along the sequence, and in v7, which returns every run it found,
\* the run discovered first (the rightmost) is the last element
C11_OrderReversing ==
    extracted.status = "ok"
    => /\ \A i, j \in 1..Len(extracted.candles) :
              i < j => extracted.candles[i].x_start < extracted.candles[j].x_start
       /\ extracted.revision = "v7"
              => LET found == DetectColumns(image, CandlesV7)
                     last == extracted.candles[Len(extracted.candles)]
                 IN  /\ Len(extracted.candles) = Len(found)
                     /\ last.x_start = found[1].x_start
                     /\ last.x_end = found[1].x_end

\* two column runs have been extracted
C11_Witness ==
    /\ extracted.status = "ok"
    /\ Len(extracted.candles) >= 2
    /\ extracted.candles[2].x_end = ImgWidth - 1

(***************************************************************************)
(* Tiers of the recommendation                                             *)
(***************************************************************************)
\* the band of a confidence of at least 65
Band(confidence, aggressive, moderate, conservative) ==
    IF confidence >= 85 THEN aggressive
    ELSE IF confidence >= 75 THEN moderate
    ELSE conservative

\* the tier target selected for the scores of r, before the adjustments
SelectedTarget(r) ==
    IF revision = "v7" THEN DecideV7(r.buy, r.sell).profitTarget
    ELSE DecideLearning(r.buy, r.sell).profitTarget

minTouchesV7 == 2

\* the points pushed by candles.forEach: the high, then the low of every candle,
\* with weight 1 + (i / candles.length) * 2 for the 0-based index i
SrPoints(cs) ==
    LET point(k) ==
            LET i == (k - 1) \div 2
            IN  [y |-> IF k % 2 = 1 THEN cs[i + 1].high ELSE cs[i + 1].low,
                 index |-> i,
                 weight |-> Q(Len(cs) + 2 * i, Len(cs))]
    IN  SubSeq([k \in 1..(2 * Len(cs)) |-> point(k)], 1, 2 * Len(cs))

\* points.sort((a, b) => a.y - b.y): stable, smallest y first
SortPoints(s) ==
    LET n == Len(s)
        before(i) == {j \in 1..n : s[j].y < s[i].y \/ (s[j].y = s[i].y /\ j < i)}
        rank == SubSeq([i \in 1..n |-> Cardinality(before(i)) + 1], 1, n)
    IN  SubSeq([k \in 1..n |-> s[CHOOSE i \in 1..n : rank[i] = k]], 1, n)

\* distance < imageHeight * 0.01 * (1 + (index / candles.length) * 0.5)
WithinTolerance(distance, imageHeight, index, len) ==
    distance * 200 * len < imageHeight * (2 * len + index)

\* Math.min(touches / 6, 1) * (weightedSum / touches / 2)
LevelStrength(touches, weightedSum) ==
    QMul(IF touches >= 6 THEN Q(1, 1) ELSE Q(touches, 6),
         QDiv(weightedSum, Q(2 * touches, 1)))

\* what the loop adds up over the points a..b of one cluster: y * weight when
\* withY, the weight otherwise
RECURSIVE ClusterSum(_, _, _, _)
ClusterSum(points, a, b, withY) ==
    IF a = b
    THEN IF withY THEN QMul(Q(points[a].y, 1), points[a].weight) ELSE points[a].weight
    ELSE LET m == (a + b) \div 2
         IN  QAdd(ClusterSum(points, a, m, withY), ClusterSum(points, m + 1, b, withY))

\* the level pushed for the cluster of the points a..b
NewLevel(points, a, b) ==
    LET weightedSum == ClusterSum(points, a, b, FALSE)
    IN  [level |-> MathRound(QDiv(ClusterSum(points, a, b, TRUE), weightedSum)),
         touches |-> b - a + 1,
         strength |-> LevelStrength(b - a + 1, weightedSum)]

\* the clustering loop over the sorted points and the push after it: a cluster
\* starts at the first point and at every point that is not within tolerance of
\* the point before it, and is pushed when it has at least minTouches touches
ClusterLevels(points, imageHeight, len) ==
    LET n == Len(points)
        starts == {i \in 1..n :
                      \/ i = 1
                      \/ ~WithinTolerance(points[i].y - points[i - 1].y, imageHeight,
                                          points[i].index, len)}
        end(a) == IF \E i \in starts : i > a
                  THEN SetMin({i \in starts : i > a}) - 1 ELSE n
        pushed == {a \in starts : end(a) - a + 1 >= minTouchesV7}
        start(k) == CHOOSE a \in pushed : Cardinality({i \in pushed : i < a}) = k - 1
    IN  SubSeq([k \in 1..Cardinality(pushed) |-> NewLevel(points, start(k), end(start(k)))],
               1, Cardinality(pushed))

\* the levels of a candle sequence, in ascending order of their points
SrLevels(cs, imageHeight) ==
    ClusterLevels(SortPoints(SrPoints(cs)), imageHeight, Len(cs))

\* levels.filter: drop a level when another one within imageHeight * 0.01 * 3 is
\* more than 1.2 times stronger
ValidatedLevels(levels, imageHeight) ==
    LET weak == {i \in 1..Len(levels) :
                    \E j \in 1..Len(levels) :
                        /\ j # i
                        /\ QLess(QMul(levels[i].strength, Q(12, 10)), levels[j].strength)
                        /\ 100 * Abs(levels[j].level - levels[i].level) < 3 * imageHeight}
        kept == (1..Len(levels)) \ weak
    IN  [k \in 1..Cardinality(kept) |->
            levels[CHOOSE i \in kept : Cardinality({j \in kept : j < i}) = k - 1]]

\* filter(l => l.level > price).sort(ascending) for the supports,
\* filter(l => l.level < price).sort(descending) for the resistances
RECURSIVE SideLevels(_, _, _)
SideLevels(levels, price, above) ==
    IF levels = <<>> THEN <<>>
    ELSE LET n == Len(levels)
             x == levels[n]
             front == SideLevels(SubSeq(levels, 1, n - 1), price, above)
             k == Cardinality({i \in 1..Len(front) :
                      IF above THEN front[i].level <= x.level
                      ELSE front[i].level >= x.level})
         IN  IF (above /\ x.level > price) \/ (~above /\ x.level < price)
             THEN SubSeq(front, 1, k) \o <<x>> \o SubSeq(front, k + 1, Len(front))
             ELSE front

\* imageHeight * 0.015 * (1 + strength * 0.7)
Zone(imageHeight, strength) ==
    QMul(Q(15 * imageHeight, 1000), QAdd(Q(1, 1), QMul(strength, Q(7, 10))))

\* recentCandles.some(c => |c.low or c.high - level| < zone * 0.5) over
\* candles.slice(-4, -1), when there are at least 4 candles
SrConfirmed(cs, nearest, imageHeight, useLow) ==
    /\ Len(cs) >= 4
    /\ nearest # <<>>
    /\ \E i \in (Len(cs) - 3)..(Len(cs) - 1) :
           QLess(Q(Abs((IF useLow THEN cs[i].low ELSE cs[i].high) - nearest[1].level), 1),
                 QMul(Zone(imageHeight, nearest[1].strength), Q(1, 2)))

\* |currentPrice - nearest.level| < zone
SrNear(price, nearest, imageHeight) ==
    /\ nearest # <<>>
    /\ QLess(Q(Abs(price - nearest[1].level), 1), Zone(imageHeight, nearest[1].strength))

\* Math.min(strength * 1.2, 1)
SrSignalStrength(strength) ==
    IF QLess(Q(1, 1), QMul(strength, Q(12, 10))) THEN Q(1, 1)
    ELSE QMul(strength, Q(12, 10))

analyzeSupportResistance(cs, imageHeight) ==
    IF Len(cs) < 8
    THEN [supports |-> <<>>, resistances |-> <<>>, signal |-> "HOLD",
          strength |-> QZero, levels |-> <<>>]
    ELSE LET levels == ValidatedLevels(SrLevels(cs, imageHeight), imageHeight)
             price == cs[Len(cs)].close
             supports == SideLevels(levels, price, TRUE)
             resistances == SideLevels(levels, price, FALSE)
             nearestSupport == Take(supports, 1)
             nearestResistance == Take(resistances, 1)
             sell == /\ SrNear(price, nearestResistance, imageHeight)
                     /\ SrConfirmed(cs, nearestResistance, imageHeight, FALSE)
             buy == /\ SrNear(price, nearestSupport, imageHeight)
                    /\ SrConfirmed(cs, nearestSupport, imageHeight, TRUE)
         IN  [supports |-> supports, resistances |-> resistances,
              signal |-> IF sell THEN "SELL" ELSE IF buy THEN "BUY" ELSE "HOLD",
              strength |-> IF sell THEN SrSignalStrength(nearestResistance[1].strength)
                           ELSE IF buy THEN SrSignalStrength(nearestSupport[1].strength)
                           ELSE QZero,
              levels |-> levels]

\* image heights and lengths around the threshold of 8 candles
ImageHeights == {100, 400}

SrLengths == {7, 8, 9}

InitSR ==
    /\ run = NoRun
    /\ \E n \in SrLengths, f \in FlatBars, tail \in [1..3 -> Bars] :
           closes = Series(n, f, tail)
    /\ image \in [height : ImageHeights]
    /\ indicator = NoResult
    /\ revision = "v7" /\ patterns = <<>> /\ tech = <<>>
    /\ patternAccuracy = <<>> /\ recs = <<>>
    /\ extracted = NoResult
    /\ candles = <<>> /\ detected = NoResult

RunSupportResistance ==
    /\ indicator = NoResult
    /\ indicator' = [status |-> "ok",
                     result |-> analyzeSupportResistance(closes, image.height)]
    /\ UNCHANGED <<closes, image, extracted, fusionVars, patternVars>>

NextSR == RunSupportResistance

SpecSR == InitSR /\ [][NextSR]_vars

SrLevelsOf(res) ==
    {res.levels[i] : i \in 1..Len(res.levels)}
    \cup {res.supports[i] : i \in 1..Len(res.supports)}
    \cup {res.resistances[i] : i \in 1..Len(res.resistances)}

\* C20 as stated: every level produced by analyzeSupportResistance for at least
\* 8 candles has strength in [0, 1]
C20_Original ==
    (indicator.status = "ok" /\ Len(closes) >= 8)
    => \A l \in SrLevelsOf(indicator.result) : InUnit(l.strength)

(***************************************************************************)
(* The indicator modules of performTechnicalAnalysis (v7, analysis.js:605- *)
(* 633) on one candle array.  analyzeMovingAverages, analyzeMACD and       *)
(* performQuantitativeAnalysis are modelled by their guard: what they      *)
(* compute from enough candles (moving averages, exponential averages, a   *)
(* square root) is taken as given, in tech.  The modules run in any order. *)
(***************************************************************************)
\* analyzeMovingAverages (analysis.js:877-939): HOLD below 50 candles
analyzeMovingAverages(cs, computed) == IF Len(cs) < 50 THEN NoMa ELSE computed

\* analyzeMACD (analysis.js:942-1009): HOLD below 26 candles
analyzeMACD(cs, computed) == IF Len(cs) < 26 THEN Hold ELSE computed

\* performQuantitativeAnalysis (analysis.js:1074-1159): null below 14 candles
performQuantitativeAnalysis(cs, computed) == IF Len(cs) < 14 THEN NoQuant ELSE computed

ModuleNames ==
    {"candlestick", "supportResistance", "donchian", "quantitative",
     "movingAverages", "macd"}

\* the candles a module needs before it computes anything
ModuleNeeds ==
    [candlestick |-> 3, supportResistance |-> 8, donchian |-> 20,
     quantitative |-> 14, movingAverages |-> 50, macd |-> 26]

\* the result of one module on the candles cs
ModuleResult(name, cs, height, computed) ==
    CASE name = "candlestick" -> DetectV7(cs)
      [] name = "supportResistance" -> analyzeSupportResistance(cs, height)
      [] name = "donchian" -> AnalyzeDonchian(cs, "v7")
      [] name = "quantitative" -> performQuantitativeAnalysis(cs, computed.quantitative)
      [] name = "movingAverages" -> analyzeMovingAverages(cs, computed.movingAverages)
      [] name = "macd" -> analyzeMACD(cs, computed.macd)

\* Array.prototype.reverse on the array, in place
CandlesAfter_Reversed(cs) == Reverse(cs)

\* the candle array after a module ran: the modules read it through forEach,
\* map, slice, reduce and indices, and assign neither to it nor to a candle
CandlesAfter(cs) == cs

\* the technicalAnalysis object built from the module results
TechOf(results) ==
    Tech(results["supportResistance"], results["donchian"], results["movingAverages"],
         results["macd"], results["quantitative"], Hold, Hold)

ModuleCandles == {PriceCandle(TRUE, 1, 3, <<0, 0>>), PriceCandle(FALSE, 3, 2, <<0, 1>>)}

ModuleLengths == {7, 13, 25, 50}

\* what the three guarded modules compute when they have enough candles
ComputedOptions ==
    {[movingAverages |-> Ma("BUY", 70, TRUE, 12, 11, 10), macd |-> Signal("BUY", 80),
      quantitative |-> Quant(TRUE, "BUY", 40, 25, 5, 20)],
     [movingAverages |-> Ma("SELL", 85, TRUE, 12, 10, 11), macd |-> Signal("SELL", 100),
      quantitative |-> Quant(TRUE, "HOLD", 0, 10, 0, 50)]}

InitModules ==
    /\ run = NoRun
    /\ \E n \in ModuleLengths, f \in ModuleCandles, tail \in [1..3 -> ModuleCandles] :
           closes = Series(n, f, tail)
    /\ candles = closes
    /\ image \in [height : ImageHeights]
    /\ tech \in ComputedOptions
    /\ indicator = <<>>
    /\ recs = <<>>
    /\ revision = "v7" /\ patterns = <<>> /\ patternAccuracy = <<>>
    /\ extracted = NoResult /\ detected = NoResult

\* one module runs on the array and stores its result
RunModule(name) ==
    /\ name \notin DOMAIN indicator
    /\ indicator' = (name :> ModuleResult(name, closes, image.height, tech)) @@ indicator
    /\ closes' = CandlesAfter(closes)
    /\ UNCHANGED <<candles, detected, image, extracted, fusionVars>>

ModCandlestick == RunModule("candlestick")

ModSupportResistance == RunModule("supportResistance")

ModDonchian == RunModule("donchian")

ModQuantitative == RunModule("quantitative")

ModMovingAverages == RunModule("movingAverages")

ModMACD == RunModule("macd")

\* generateProfessionalRecommendation on the results of all modules
ModRecommend ==
    /\ DOMAIN indicator = ModuleNames
    /\ recs = <<>>
    /\ recs' = <<RecommendV7(indicator["candlestick"], TechOf(indicator))>>
    /\ UNCHANGED <<revision, patterns, tech, patternAccuracy, closes, indicator,
                   candles, detected, image, extracted, run>>

NextModules ==
    \/ ModCandlestick \/ ModSupportResistance \/ ModDonchian
    \/ ModQuantitative \/ ModMovingAverages \/ ModMACD \/ ModRecommend

SpecModules == InitModules /\ [][NextModules]_vars

Indicators == ModuleNames \ {"candlestick"}

\* a module result that is an object with signal HOLD and strength 0
NeutralResult(res) ==
    /\ "present" \in DOMAIN res => res.present
    /\ res.signal = "HOLD"
    /\ StrengthOf(res) = QZero

\* C13 as stated: every indicator called with fewer candles than it needs
\* returns a result with signal HOLD and strength 0, never null
C13_Original ==
    \A name \in Indicators \cap DOMAIN indicator :
        Len(candles) < ModuleNeeds[name] => NeutralResult(indicator[name])

\* the quantitative module called with 13 candles has returned null
C13_NullResult ==
    /\ Len(candles) = 13
    /\ "quantitative" \in DOMAIN indicator
    /\ ~indicator["quantitative"].present

MaxUploads == 2

MaxCloses == 1

PipelineImages ==
    [width : {ImgWidth}, height : {ImgHeight},
     columns : {{}, {0}, {1, 2, 3}, {0, 1, 2, 4, 5, 6}},
     content : {[r \in 1..ImgHeight |-> c] : c \in 1..Len(Palette)}]

\* an uploaded file: what stops it ("type", "size" in analyzeImage, "invalid",
\* "cors" in loadImageData), or "ok" and the pixels it decodes to
PipelineFiles ==
    {[check |-> c, image |-> NoImage] : c \in {"type", "size", "invalid", "cors"}}
    \cup {[check |-> "ok", image |-> i] : i \in PipelineImages}

FileMessage ==
    [type |-> "Unsupported file format", size |-> "File too large",
     invalid |-> "Failed to load image - invalid file",
     cors |-> "Failed to read image data - possibly CORS issue"]

\* showError without the removal of the existing notification
ShowError_Appending(errors, message) == Append(errors, message)

\* showError: the existing .error-notification is removed, a new one is appended
ShowError(errors, message) == <<message>>

\* clearImageData: URL.revokeObjectURL(currentImageURL); currentImageURL = null
ClearImageData(r) == [r EXCEPT !.url = 0]

\* resetAnalyzer: returns at once while analysisInProgress is set; otherwise the
\* upload area alone is displayed, the steps and the progress are cleared and
\* clearImageData is called
ResetAnalyzer(r) ==
    IF r.analysisInProgress THEN r
    ELSE ClearImageData([r EXCEPT !.view = {"uploadArea"}, !.progress = 0])

\* the catch and finally blocks of performAdvancedAnalysis
Catch(r, message) ==
    [ResetAnalyzer([r EXCEPT !.errors = ShowError(r.errors, message),
                             !.shown = r.shown + 1])
        EXCEPT !.analysisInProgress = FALSE, !.stage = "failed"]

InitPipeline ==
    /\ run = NoRun
    /\ image = NoImage /\ extracted = NoResult /\ indicator = NoResult
    /\ tech \in ComputedOptions
    /\ recs = <<>>
    /\ revision = "v7" /\ patterns = <<>> /\ patternAccuracy = <<>>
    /\ candles = <<>> /\ detected = NoResult /\ closes = <<>>

\* analyzeImage, and performAdvancedAnalysis up to its first await
analyzeImage(file) ==
    /\ ~run.analysisInProgress
    /\ run.uploads < MaxUploads
    /\ IF file.check \in {"type", "size"}
       THEN /\ run' = [run EXCEPT !.errors = ShowError(run.errors, FileMessage[file.check]),
                                  !.uploads = run.uploads + 1, !.rejected = TRUE]
            /\ UNCHANGED <<image, extracted, indicator>>
       ELSE /\ run' = [run EXCEPT !.stage = "loading", !.file = file,
                                  !.analysisInProgress = TRUE,
                                  !.view = {"analysisArea"}, !.progress = 10,
                                  !.url = run.uploads + 1,
                                  !.analysis = run.uploads + 1,
                                  !.shown = 0, !.executed = <<>>, !.scheduled = FALSE,
                                  !.uploads = run.uploads + 1, !.rejected = FALSE]
            /\ image' = NoImage /\ extracted' = NoResult /\ indicator' = NoResult
    /\ UNCHANGED <<revision, patterns, tech, patternAccuracy, recs, patternVars, closes>>

Upload == \E file \in PipelineFiles : analyzeImage(file)

\* loadImageData settles: img.onload resolves with the pixels, or the promise
\* is rejected and the catch block runs
loadImageData ==
    /\ run.stage = "loading"
    /\ LET r == [run EXCEPT !.executed = Append(run.executed, "loadImageData")]
       IN  IF run.file.check = "ok"
           THEN /\ run' = [r EXCEPT !.stage = "extracting", !.progress = 30]
                /\ image' = run.file.image
           ELSE /\ run' = Catch(r, FileMessage[run.file.check])
                /\ UNCHANGED image
    /\ UNCHANGED <<revision, patterns, tech, patternAccuracy, recs, patternVars,
                   indicatorVars, extracted>>

\* analyzeProfessionalCandlesticks returns the candles or throws
PipelineCandlesticks ==
    /\ run.stage = "extracting"
    /\ \E res \in {ExtractV7(image)} :
           LET r == [run EXCEPT !.executed =
                                   Append(run.executed, "analyzeProfessionalCandlesticks")]
           IN  IF res.status = "ok"
               THEN /\ run' = [r EXCEPT !.stage = "technical", !.progress = 60]
                    /\ extracted' = res
               ELSE /\ run' = Catch(r, res.message)
                    /\ UNCHANGED extracted
    /\ UNCHANGED <<revision, patterns, tech, patternAccuracy, recs, patternVars,
                   indicatorVars, image>>

performTechnicalAnalysis ==
    /\ run.stage = "technical"
    /\ run' = [run EXCEPT !.stage = "recommending", !.progress = 85,
                          !.executed = Append(run.executed, "performTechnicalAnalysis")]
    /\ indicator' = [name \in Indicators |->
                        ModuleResult(name, extracted.candles, image.height, tech)]
    /\ UNCHANGED <<revision, patterns, tech, patternAccuracy, recs, patternVars,
                   closes, extractVars>>

\* generateProfessionalRecommendation, the setTimeout of displayProfessionalResults
\* and the finally block
PipelineRecommend ==
    /\ run.stage = "recommending"
    /\ recs' = Append(recs, RecommendV7(DetectV7(extracted.candles), TechOf(indicator)))
    /\ run' = [run EXCEPT !.stage = "done", !.scheduled = TRUE, !.progress = 100,
                          !.timers = run.timers \cup {run.analysis},
                          !.analysisInProgress = FALSE,
                          !.executed = Append(run.executed, "generateProfessionalRecommendation")]
    /\ UNCHANGED <<revision, patterns, tech, patternAccuracy, patternVars,
                   indicatorVars, extractVars>>

\* the 500 ms timer of the analysis id fires: the analysis area is hidden, the
\* results area is displayed with the results of id, and startResultsCountdown
\* is called
displayProfessionalResults(id) ==
    /\ id \in run.timers
    /\ run' = [run EXCEPT !.timers = run.timers \ {id},
                          !.displayed = run.displayed + 1,
                          !.view = (run.view \ {"analysisArea"}) \cup {"resultsArea"},
                          !.resultsOf = id,
                          !.countdowns = run.countdowns \cup {id}]
    /\ UNCHANGED <<revision, patterns, tech, patternAccuracy, recs, patternVars,
                   indicatorVars, extractVars>>

Display == \E id \in 1..MaxUploads : displayProfessionalResults(id)

\* the last timer of startResultsCountdown of the analysis id fires, after the
\* overlay and the fade-out: resetAnalyzer(); clearImageData()
countdownEnd(id) ==
    /\ id \in run.countdowns
    /\ run' = ClearImageData(
                  ResetAnalyzer([run EXCEPT !.countdowns = run.countdowns \ {id}]))
    /\ UNCHANGED <<revision, patterns, tech, patternAccuracy, recs, patternVars,
                   indicatorVars, extractVars>>

Countdown == \E id \in 1..MaxUploads : countdownEnd(id)

\* closeAnalyzer (Escape or the close button): resetAnalyzer is deferred by 300 ms
closeAnalyzer ==
    /\ run.closes < MaxCloses
    /\ run' = [run EXCEPT !.closes = run.closes + 1, !.closing = run.closing + 1]
    /\ UNCHANGED <<revision, patterns, tech, patternAccuracy, recs, patternVars,
                   indicatorVars, extractVars>>

\* the 300 ms timer of closeAnalyzer fires
closeReset ==
    /\ run.closing > 0
    /\ run' = ResetAnalyzer([run EXCEPT !.closing = run.closing - 1])
    /\ UNCHANGED <<revision, patterns, tech, patternAccuracy, recs, patternVars,
                   indicatorVars, extractVars>>

\* the 5 s timer of showError fires, or the close button is pressed
DismissError ==
    /\ run.errors # <<>>
    /\ run' = [run EXCEPT !.errors = Tail(run.errors)]
    /\ UNCHANGED <<revision, patterns, tech, patternAccuracy, recs, patternVars,
                   indicatorVars, extractVars>>

NextPipeline ==
    \/ Upload \/ loadImageData \/ PipelineCandlesticks \/ performTechnicalAnalysis
    \/ PipelineRecommend \/ Display \/ Countdown \/ closeAnalyzer \/ closeReset
    \/ DismissError

SpecPipeline == InitPipeline /\ [][NextPipeline]_vars

\* the message of the failure of the current run
FailureMessage ==
    IF run.file.check # "ok" THEN FileMessage[run.file.check] ELSE ExtractV7(image).message

\* C14: a run whose image does not load or whose extraction throws ends in the
\* catch block with no later stage executed, no display scheduled and exactly
\* one error message shown, which is the only one on the page until it is
\* dismissed or a later upload is rejected; any other run goes on
C14_FailureAborts ==
    /\ run.stage = "failed" =>
           /\ run.executed \in {<<"loadImageData">>,
                                <<"loadImageData", "analyzeProfessionalCandlesticks">>}
           /\ Len(run.executed) = 1 <=> run.file.check # "ok"
           /\ Len(run.executed) = 2 => ExtractV7(image).status = "error"
           /\ indicator = NoResult
           /\ ~run.scheduled
           /\ run.shown = 1
           /\ Len(run.errors) <= 1
           /\ ~run.rejected => run.errors \in {<<>>, <<FailureMessage>>}
    /\ run.stage \in {"technical", "recommending", "done"} =>
           /\ run.file.check = "ok"
           /\ ExtractV7(image).status = "ok"
           /\ run.shown = 0

\* a run has failed in the extraction after an earlier upload was rejected, and
\* its message is the one on the page
C14_Witness ==
    /\ run.stage = "failed"
    /\ run.uploads = 2
    /\ Len(run.executed) = 2
    /\ run.errors = <<"No candles detected in chart image">>

(***************************************************************************)
(* Short sequences in the pattern detector (SpecPatterns).                 *)
(***************************************************************************)
PatternNames(ps) == {ps[i].name : i \in 1..Len(ps)}

\* the patterns whose predicates read only the latest candle, and for two
\* candles only the latest and the previous one
AvailablePatterns(cs) ==
    LET len == Len(cs)
    IN  SingleCandlePatternsV7(cs[len])
        \o (IF len >= 2
            THEN TwoCandlePatternsV7(cs[len], cs[len - 1]) \o GapPatternsV7(cs[len], cs[len - 1])
            ELSE <<>>)

\* C15 as stated: on 1 or 2 candles the detector reports every pattern whose
\* predicate needs only the candles available
C15_Original ==
    (detected.status = "ok" /\ Len(candles) \in {1, 2})
    => PatternNames(AvailablePatterns(candles)) \subseteq PatternNames(detected.patterns)

(***************************************************************************)
(* Pattern scores in the v7 fusion (SpecFusion).                           *)
(***************************************************************************)
\* the entry of config.scores (analysis.js:25-57, in tenths) that carries the
\* name of a pattern in camel case; none for Bearish Marubozu
ConfiguredScore ==
    ("Morning Star" :> ScoresV7.morningStar)
    @@ ("Bullish Engulfing" :> ScoresV7.bullishEngulfing)
    @@ ("Shooting Star" :> ScoresV7.shootingStar)
    @@ ("Inverted Hammer" :> ScoresV7.invertedHammer)
    @@ ("Bearish Marubozu" :> FallbackScore)

\* C17 as stated: each BUY or SELL pattern adds the base score configured for
\* its name times its strength (Morning Star 5.0 x 0.98, Bullish Engulfing
\* 4.0 x 0.95), the fallback serving only names without an entry
C17_Original ==
    revision = "v7" =>
        \A r \in Returned, i \in 1..Len(patterns) :
            patterns[i].signal \in {"BUY", "SELL"} =>
                \E k \in 1..Len(r.summary) :
                    /\ r.summary[k].label = patterns[i].name
                    /\ r.summary[k].impact =
                           QMul(Q(ConfiguredScore[patterns[i].name], 10),
                                Q(patterns[i].strength, 100))

(***************************************************************************)
(* The v7 detector on candles as the extractor derives them: rows of the   *)
(* image counted from the top, so high <= bodyTop <= bodyBottom <= low.    *)
(***************************************************************************)
MaxRow == 2

\* the fields analyzeProfessionalCandlesticks derives (analysis.js:273-289)
\* from the four rows and the color of a candle
RowCandle(isGreen, high, bodyTop, bodyBottom, low) ==
    LET totalHeight == Max(1, low - high)
        open == IF isGreen THEN bodyBottom ELSE bodyTop
        close == IF isGreen THEN bodyTop ELSE bodyBottom
    IN  [isGreen |-> isGreen, isRed |-> ~isGreen,
         high |-> high, low |-> low, totalHeight |-> totalHeight,
         bodyTop |-> bodyTop, bodyBottom |-> bodyBottom,
         open |-> open, close |-> close, bodyHeight |-> Abs(close - open),
         bodyRatio |-> Q(Abs(close - open), totalHeight),
         upperWickRatio |-> Q((IF isGreen THEN close ELSE open) - high, Max(1, totalHeight)),
         lowerWickRatio |-> Q(low - (IF isGreen THEN open ELSE close), Max(1, totalHeight))]

RowCandles ==
    {c \in {RowCandle(g, h, t, b, l) :
                g \in BOOLEAN,
                h \in 0..MaxRow, t \in 0..MaxRow, b \in 0..MaxRow, l \in 0..MaxRow} :
        c.high <= c.bodyTop /\ c.bodyTop <= c.bodyBottom /\ c.bodyBottom <= c.low}

InitRowPatterns ==
    /\ run = NoRun
    /\ candles \in [1..3 -> RowCandles]
    /\ detected = NoResult
    /\ revision = "v7" /\ patterns = <<>> /\ tech = <<>>
    /\ patternAccuracy = <<>> /\ recs = <<>>
    /\ image = NoImage /\ extracted = NoResult
    /\ closes = <<>> /\ indicator = NoResult

SpecRowPatterns == InitRowPatterns /\ [][NextPatterns]_vars

Reported(name) == detected.status = "ok" /\ name \in PatternNames(detected.patterns)

\* the rows high..low of the two candles have no row in common
DisjointExtents(c0, c1) == c0.low < c1.high \/ c1.low < c0.high

\* C18 as stated: Gap Up or Gap Down is reported only when the extents of the
\* latest and of the previous candle are disjoint, and never both together
C18_Original ==
    /\ (Reported("Gap Up") \/ Reported("Gap Down"))
           => DisjointExtents(candles[Len(candles)], candles[Len(candles) - 1])
    /\ ~(Reported("Gap Up") /\ Reported("Gap Down"))

\* C19 as stated: a Harami is reported only when the two candles have opposite
\* colors, the body span of the latest one lies within the body span of the
\* previous one, and the latest bodyHeight is the smaller
C19_Original ==
    (Reported("Bullish Harami") \/ Reported("Bearish Harami")) =>
        LET c0 == candles[Len(candles)]
            c1 == candles[Len(candles) - 1]
        IN  /\ c0.isGreen # c1.isGreen
            /\ c1.bodyTop <= c0.bodyTop /\ c0.bodyBottom <= c1.bodyBottom
            /\ c0.bodyHeight < c1.bodyHeight

(***************************************************************************)
(* Runs of candle columns and the candles of the extraction (SpecExtract). *)
(***************************************************************************)
\* the columns of the image that hold a candle pixel in the chart area
MatchingColumns(img, cfg) ==
    {x \in 0..(img.width - 1) : IsCandleColumn(img, cfg, x)}

\* the maximal runs <<first, last>> of consecutive columns of S
MaximalRuns(S) ==
    {r \in S \X S : /\ r[1] <= r[2]
                    /\ \A x \in r[1]..r[2] : x \in S
                    /\ r[1] - 1 \notin S /\ r[2] + 1 \notin S}

CandleSpans(cs) == {<<cs[i].x_start, cs[i].x_end>> : i \in 1..Len(cs)}

\* C21 as stated: in v7 the candles are exactly the maximal runs of matching
\* columns that are at least minWidth (2) columns wide, one candle for each
C21_Original ==
    (extracted.status # "idle" /\ extracted.revision = "v7") =>
        /\ CandleSpans(extracted.candles) =
               {r \in MaximalRuns(MatchingColumns(image, CandlesV7)) :
                   r[2] - r[1] + 1 >= CandlesV7.minWidth}
        /\ Len(extracted.candles) = Cardinality(CandleSpans(extracted.candles))

\* the candles of the column scan with their derived fields, before the filter
RawCandles(img, cfg) ==
    LET found == DetectColumns(img, cfg)
    IN  {ProcessCandle(img, cfg, found[i]) : i \in 1..Len(found)}

\* C22 as stated: no returned candle has high = low, and the extraction fails
\* with the no-valid-candles error when every detected candle has zero height
C22_Original ==
    extracted.status # "idle" =>
        LET raw == RawCandles(image, CfgOf(extracted.revision))
        IN  /\ \A c \in ExtractedCandles : c.high # c.low
            /\ (raw # {} /\ \A c \in raw : c.low - c.high = 0) =>
                   /\ extracted.status = "error"
                   /\ extracted.message = "No valid candles found after processing"

(***************************************************************************)
(* The cap of the column scan.  cfg.scanCount is 150 in v7; the scan is    *)
(* run here with a cap small enough for the images to exceed it.           *)
(***************************************************************************)
MaxScanCount == 2

\* analyzeProfessionalCandlesticks with cfg.scanCount = k
ExtractCapped(img, k) ==
    LET cfg == [CandlesV7 EXCEPT !.scanCount = k]
    IN  IF DetectColumns(img, cfg) = <<>>
        THEN [status |-> "error", revision |-> "v7", candles |-> <<>>, scanCount |-> k,
              message |-> "No candles detected in chart image"]
        ELSE IF ProcessedCandles(img, cfg) = <<>>
        THEN [status |-> "error", revision |-> "v7", candles |-> <<>>, scanCount |-> k,
              message |-> "No valid candles found after processing"]
        ELSE [status |-> "ok", revision |-> "v7", scanCount |-> k,
              candles |-> ProcessedCandles(img, cfg), message |-> ""]

ScanCapped ==
    /\ extracted = NoResult
    /\ \E k \in 1..MaxScanCount : \E res \in {ExtractCapped(image, k)} : extracted' = res
    /\ UNCHANGED <<image, fusionVars, patternVars, indicatorVars>>

NextScan == ScanCapped

SpecScan == InitExtract /\ [][NextScan]_vars

\* the runs the scan keeps: maximal runs of matching columns among the columns
\* 1..width-1 it reads, with x_end - x_start >= minWidth
QualifyingRuns(img, cfg) ==
    {r \in MaximalRuns(MatchingColumns(img, cfg) \ {0}) : r[2] - r[1] >= cfg.minWidth}

\* the k runs of R furthest to the right
Rightmost(R, k) == {r \in R : Cardinality({q \in R : q[1] > r[1]}) < k}

\* C23: the scan ends and returns at most scanCount candles, which are the
\* scanCount rightmost qualifying runs when there are more, oldest first
C23_ScanCapped ==
    extracted.status # "idle" =>
        /\ Len(extracted.candles) <= extracted.scanCount
        /\ CandleSpans(extracted.candles) =
               Rightmost(QualifyingRuns(image, CandlesV7), extracted.scanCount)
        /\ Len(extracted.candles) = Cardinality(CandleSpans(extracted.candles))
        /\ \A i, j \in 1..Len(extracted.candles) :
               i < j => extracted.candles[i].x_start < extracted.candles[j].x_start

\* two qualifying runs and a cap of one: only the right one is returned
C23_Witness ==
    /\ extracted.status = "ok"
    /\ extracted.scanCount = 1
    /\ Cardinality(QualifyingRuns(image, CandlesV7)) = 2
    /\ Len(extracted.candles) = 1

(***************************************************************************)
(* The adjustments of the profit target, one factor each                   *)
(***************************************************************************)
QOne == <<1, 1>>

\* analysis.js:1445-1451 (3429-3433 in the learning revision): the volatility
\* breakpoints, the first that applies
VolatilityFactor(quant) ==
    IF ~(quant.present /\ quant.hasIndicators) THEN QOne
    ELSE IF revision = "v7"
         THEN IF quant.volatility > 40 THEN Q(60, 100)
              ELSE IF quant.volatility > 30 THEN Q(75, 100)
              ELSE IF quant.volatility > 20 THEN Q(90, 100)
              ELSE QOne
    ELSE IF quant.volatility > 30 THEN Q(70, 100)
    ELSE IF quant.volatility > 20 THEN Q(85, 100)
    ELSE QOne

\* analysis.js:1454-1458 (3436-3438): the boost of a strong trend
TrendFactor(quant) ==
    IF ~(quant.present /\ quant.hasIndicators) THEN QOne
    ELSE IF revision = "v7"
         THEN IF Abs(quant.trendStrength) > 6 THEN Q(125, 100)
              ELSE IF Abs(quant.trendStrength) > 4 THEN Q(115, 100)
              ELSE QOne
    ELSE IF Abs(quant.trendStrength) > 5 THEN Q(120, 100)
    ELSE QOne

\* analysis.js:1461-1463 (3441-3443): the reduction at an extreme RSI
RsiFactor(quant) ==
    IF ~(quant.present /\ quant.hasIndicators) THEN QOne
    ELSE IF revision = "v7"
         THEN IF quant.rsi > 85 \/ quant.rsi < 15 THEN Q(85, 100) ELSE QOne
    ELSE IF quant.rsi > 80 \/ quant.rsi < 20 THEN Q(90, 100) ELSE QOne

\* analysis.js:1467-1483: 1.1 for averages aligned with the action, 0.85 for
\* averages against it; the learning revision has no such adjustment
AlignmentFactor(action, ma) ==
    IF revision # "v7" \/ ~ma.hasIndicators THEN QOne
    ELSE IF ma.sma9 = 0 \/ ma.sma20 = 0 \/ ma.sma50 = 0 THEN QOne
    ELSE IF action = "BUY" /\ ma.sma9 > ma.sma20 /\ ma.sma20 > ma.sma50
         THEN Q(110, 100)
    ELSE IF action = "SELL" /\ ma.sma9 < ma.sma20 /\ ma.sma20 < ma.sma50
         THEN Q(110, 100)
    ELSE IF \/ action = "BUY" /\ (ma.sma9 < ma.sma20 \/ ma.sma20 < ma.sma50)
            \/ action = "SELL" /\ (ma.sma9 > ma.sma20 \/ ma.sma20 > ma.sma50)
         THEN Q(85, 100)
    ELSE QOne

\* the four factors of a recommendation with action a, in the order of the code
AdjustmentFactors(a) ==
    <<VolatilityFactor(tech.quantitative), TrendFactor(tech.quantitative),
      RsiFactor(tech.quantitative), AlignmentFactor(a, tech.movingAverages)>>

Orders == {p \in [1..4 -> 1..4] : \A i, j \in 1..4 : i # j => p[i] # p[j]}

\* profitTarget *= factor, one factor after the other in the order p
ApplyInOrder(target, fs, p) ==
    QMul(QMul(QMul(QMul(target, fs[p[1]]), fs[p[2]]), fs[p[3]]), fs[p[4]])

CodeOrder == <<1, 2, 3, 4>>

\* C24 as stated: the returned profit target of a non-WAIT recommendation is
\* the tier's base target times the product of the applicable factors
C24_Original ==
    \A r \in Returned :
        r.action # "WAIT"
        => Q(r.profitTarget, 1000)
               = ApplyInOrder(SelectedTarget(r), AdjustmentFactors(r.action), CodeOrder)

\* C24 amended: the returned profit target of a non-WAIT recommendation is, in
\* tenths of a percent, the tier's base target times the product of the
\* applicable factors rounded to one decimal place of the percentage, halves
\* up, and every order of applying the factors gives that same value
C24_Amended ==
    \A r \in Returned :
        r.action # "WAIT"
        => \A p \in Orders :
               r.profitTarget
                   = MathRound(QMul(ApplyInOrder(SelectedTarget(r),
                                        AdjustmentFactors(r.action), p),
                                    Q(1000, 1)))

\* a non-WAIT recommendation with at least two factors other than 1 whose
\* product with the base target is not a whole number of tenths of a percent
C24_Witness ==
    \E r \in Returned :
        /\ r.action # "WAIT"
        /\ Cardinality({i \in 1..4 : AdjustmentFactors(r.action)[i] # QOne}) >= 2
        /\ Q(r.profitTarget, 1000)
               # ApplyInOrder(SelectedTarget(r), AdjustmentFactors(r.action), CodeOrder)

(***************************************************************************)
(* The view after a failure, and the callbacks deferred by earlier runs    *)
(***************************************************************************)
\* C25 as stated: when an analysis fails, the reset of the error handler takes
\* effect: the upload area alone is displayed, the steps and the progress are
\* cleared and the image URL is released
C25_Original ==
    [][run'.stage = "failed" /\ run.stage # "failed"
       => /\ run'.view = {"uploadArea"}
          /\ run'.progress = 0
          /\ run'.url = 0]_vars

\* the deferred callbacks are the steps that leave the stage, the number of
\* uploads and the notifications alone
Deferred ==
    /\ run'.stage = run.stage
    /\ run'.uploads = run.uploads
    /\ run'.errors = run.errors

\* C26 as stated: while analysisInProgress is set no deferred callback changes
\* the areas displayed or releases the image URL, and the results displayed
\* are those of the analysis started last
C26_Original ==
    /\ [][run.analysisInProgress /\ Deferred
          => run'.view = run.view /\ run'.url = run.url]_vars
    /\ []("resultsArea" \in run.view => run.resultsOf = run.analysis)

C28_ReversalPairs ==
    /\ Reported("Shooting Star") => Reported("Inverted Hammer")
    /\ Reported("Hanging Man") => Reported("Hammer")

\* the detector reports Hanging Man, a SELL, together with Hammer, a BUY
C28_Witness ==
    /\ Reported("Hanging Man")
    /\ \E i, j \in 1..Len(detected.patterns) :
           /\ detected.patterns[i].name = "Hanging Man"
           /\ detected.patterns[i].signal = "SELL"
           /\ detected.patterns[j].name = "Hammer"
           /\ detected.patterns[j].signal = "BUY"

(***************************************************************************)
(* The geometry of a v7 candle (SpecExtract)                               *)
(***************************************************************************)
\* the rows between high and low of the middle column of the candle c whose
\* pixel matches the color class of c
OwnColorRows(img, c) ==
    {y \in c.high..c.low :
        IF c.isGreen THEN greenCandle(CandlesV7, Pixel(img, MidX(c), y))
        ELSE redCandle(CandlesV7, Pixel(img, MidX(c), y))}

\* C29: every candle of the v7 extractor has high <= bodyTop <= bodyBottom <=
\* low, bodyTop and bodyBottom are the first and the last row between high and
\* low that matches the color class of the candle, and upperWick, bodyHeight
\* and lowerWick are not negative and add up to low - high
C29_Geometry ==
    (extracted.status = "ok" /\ extracted.revision = "v7")
    => \A i \in 1..Len(extracted.candles) :
           LET c == extracted.candles[i]
               own == OwnColorRows(image, c)
           IN  /\ c.high <= c.bodyTop /\ c.bodyTop <= c.bodyBottom
               /\ c.bodyBottom <= c.low
               /\ own # {}
               /\ c.bodyTop = SetMin(own) /\ c.bodyBottom = SetMax(own)
               /\ c.upperWick >= 0 /\ c.bodyHeight >= 0 /\ c.lowerWick >= 0
               /\ c.upperWick + c.bodyHeight + c.lowerWick = c.low - c.high

\* a v7 candle whose body spans a row that does not match its color class
C29_Witness ==
    /\ extracted.status = "ok" /\ extracted.revision = "v7"
    /\ \E i \in 1..Len(extracted.candles) :
           LET c == extracted.candles[i]
           IN  \E y \in c.bodyTop..c.bodyBottom : y \notin OwnColorRows(image, c)

(***************************************************************************)
(* The fields of a Recommendation by its action (SpecFusion)               *)
(***************************************************************************)
\* C30 as stated: a WAIT recommendation has profitTarget 0 and riskLevel 0, and
\* a BUY or SELL recommendation has a confidence from 65 to 95 with a positive
\* profitTarget and a positive riskLevel
C30_Original ==
    \A r \in Returned :
        /\ r.action = "WAIT" => r.profitTarget = 0 /\ r.riskLevel = 0
        /\ r.action \in {"BUY", "SELL"}
               => /\ 65 <= r.confidence /\ r.confidence <= 95
                  /\ r.profitTarget > 0 /\ r.riskLevel > 0

====
